---- MODULE Spec2Model ----
(***************************************************************************)
(* State-machine model of the elevator dispatch engines of the-elevator:   *)
(*   - src/src/elevator_system.py  (Elevator, ElevatorSystem; the engine   *)
(*     served by src/src/api.py), variables elevators / last_call / ret;   *)
(*   - src/src/system.py + src/src/elevator.py (the object-model engine    *)
(*     exercised by src/tests/).                                           *)
(* Python values are kept as they are: enum members by their .value        *)
(* strings, lists as sequences, return values True/False/None as strings.  *)
(***************************************************************************)
EXTENDS Integers, Sequences, FiniteSets, Bags, TLC

\* ---------------------------------------------------------------- bounds
\* Number of request calls (internal or external) followed in one run.
MaxRequests == 2
\* How many floors past either end of the building a car is followed.
MaxOverrun == 2
\* How many ticks of the traced single-request scenario are counted.
MaxScenarioTicks == 14
\* Number of request calls followed on the two-elevator system.
MaxSmallRequests == 3
\* Number of request calls followed on the running service.
MaxServiceRequests == 1

\* ------------------------------------------------------ program constants
num_floors == 50
num_elevators == 6
DOOR_OPENING_TICKS == 2
DOOR_OPEN_TICKS == 3
DOOR_CLOSING_TICKS == 2

\* Inputs of the request calls: floors beyond both ends of the building, the
\* lobby, a floor of every zone and the top floor; elevator ids beyond both
\* ends of the elevator list, a low-rise and a mid-rise elevator.
InternalFloors == {0, 1, 5, 25, 40, 51}
ExternalFloors == {0, 1, 5, 25, 50, 51}
RequestElevatorIds == {0, 1, 3, 7}
\* Floors and car of the requests followed around one car's own floor.
NearbyFloors == {1, 2, 3}
NearbyElevatorIds == {1}
\* Floors handed to Elevator.add_target: 25 is outside the zone, 1 to 20.
TargetFloors == {1, 2, 3, 25}
\* The same for the object-model engine, whose cars are stopped and resumed
\* one by one (Elevator.emergency_stop): the car that is.
SysInternalFloors == {0, 1, 5, 40, 51}
SysExternalFloors == {0, 1, 5, 25, 51}
EmergencyElevatorIds == {1}
RequestDirections == {"up", "down"}
\* The values assigned to Elevator.current_weight (elevator.py), those of
\* tests/test_elevator.py and the ones around max_weight, and the cars they
\* are assigned to
Weights == {-100, 0, 500, 900, 2199, 2200, 2201, 2500}
WeightElevatorIds == {1, 2, 3}
\* The car on which Elevator.emergency_stop is called directly
CarStopIds == {2}
\* ElevatorSystem(num_floors=50, num_elevators=2): a system whose elevators
\* can all be busy within a few calls
SmallNumElevators == 2

VARIABLES
    engine,        \* the ElevatorSystem class this run has constructed
    elevators,     \* elevator_system.ElevatorSystem.elevators, indexed by id
    sys_elevators, \* system.ElevatorSystem.elevators, indexed by id
    request_queue, \* system.ElevatorSystem.request_queue
    last_call,     \* the call made last, with its arguments
    ret,           \* what that call returned
    requests,      \* number of request calls made so far
    scenario_ticks, \* ticks since add_internal_request(1, 5) was made on a
                    \* fresh elevator_system.ElevatorSystem with no other
                    \* call since; -1 otherwise
    lobby_dispatch, \* ids of the elevators whose pending target floor 1 was
                    \* given to them by an external lobby call
    dwell,          \* per elevator, the ticks it has spent in the door state
                    \* it is in (0 outside the door states)
    tick,           \* api.update_system, the background thread: its position
                    \* (a line of elevator_system.py or api.py), the elevator
                    \* being updated and that elevator's _last_state
    status_cache,   \* api._status_cache: per elevator the values copied into
                    \* it; <<>> for None
    cache_targets,  \* per elevator the contents e.targets had when the cache
                    \* entry was built (the entry itself holds the list object)
    status,         \* the status the last status handler returned
    serial_before,  \* the elevators, had the tick in progress not begun yet
    serial_after,   \* the elevators, had the tick in progress run as a whole
                    \* before one of the handler calls made since it began
    stopped         \* trigger_emergency has returned and resume_service has
                    \* not been called since

svc_vars == <<tick, status_cache, cache_targets, status, serial_before,
              serial_after, stopped>>

vars == <<engine, elevators, sys_elevators, request_queue, last_call, ret,
          requests, scenario_ticks, lobby_dispatch, dwell, svc_vars>>

\* ------------------------------------------------------------ list helpers
Abs(x) == IF x < 0 THEN -x ELSE x

Contains(s, x) == \E k \in 1..Len(s) : s[k] = x

RECURSIVE InsertAsc(_, _)
InsertAsc(s, x) ==
    IF s = <<>> THEN <<x>>
    ELSE IF x < Head(s) THEN <<x>> \o s
    ELSE <<Head(s)>> \o InsertAsc(Tail(s), x)

\* list.sort()
RECURSIVE SortAsc(_)
SortAsc(s) == IF s = <<>> THEN <<>> ELSE InsertAsc(SortAsc(Tail(s)), Head(s))

Reverse(s) == [k \in 1..Len(s) |-> s[Len(s) + 1 - k]]

\* list.sort(reverse=True)
SortDesc(s) == Reverse(SortAsc(s))

\* list.remove(x): drops the first occurrence of x
RECURSIVE Remove(_, _)
Remove(s, x) ==
    IF s = <<>> THEN <<>>
    ELSE IF Head(s) = x THEN Tail(s)
    ELSE <<Head(s)>> \o Remove(Tail(s), x)

\* ------------------------------------------ elevator_system.py: Elevator
\* ElevatorSystem.__init__: zone range by position in the elevator list
ZoneRange(id) ==
    IF id - 1 < 2 THEN <<1, 20>>
    ELSE IF id - 1 < 4 THEN <<21, 35>>
    ELSE <<36, 50>>

\* Elevator.__init__
NewElevator(id) ==
    [id |-> id, current_floor |-> 1, direction |-> "idle", state |-> "idle",
     targets |-> <<>>, zone_range |-> ZoneRange(id), door_timer |-> 0]

door_open(e) == e.state \in {"door_open", "door_opening"}

\* emergency_stop that forgets to clear the targets
Elevator_emergency_stop_keeps_targets(e) ==
    [e EXCEPT !.state = "emergency", !.direction = "idle"]

\* emergency_stop that forgets to reset the direction
Elevator_emergency_stop_keeps_direction(e) ==
    [e EXCEPT !.state = "emergency", !.targets = <<>>]

Elevator_emergency_stop(e) ==
    [e EXCEPT !.state = "emergency", !.direction = "idle", !.targets = <<>>]

\* resume_service that puts the car back in motion
Elevator_resume_service_to_moving(e) ==
    IF e.state = "emergency" THEN [e EXCEPT !.state = "moving"] ELSE e

\* the elevator after Elevator.resume_service
Elevator_resume_service(e) ==
    IF e.state = "emergency" THEN [e EXCEPT !.state = "idle"] ELSE e

\* what Elevator.resume_service returns
Elevator_resume_service_ret(e) == e.state = "emergency"

\* can_serve_floor without the zone check
can_serve_floor_any(e, floor) == TRUE

\* can_serve_floor that checks the upper end of the zone only
can_serve_floor_max_only(e, floor) ==
    IF floor = 1 THEN TRUE ELSE floor <= e.zone_range[2]

\* can_serve_floor without the lobby exception
can_serve_floor_zone_only(e, floor) ==
    e.zone_range[1] <= floor /\ floor <= e.zone_range[2]

can_serve_floor(e, floor) ==
    IF floor = 1 THEN TRUE
    ELSE e.zone_range[1] <= floor /\ floor <= e.zone_range[2]

\* add_target that appends the floor before it validates it
add_target_append_first(e, floor) ==
    IF ~can_serve_floor(e, floor) \/ Contains(e.targets, floor)
    THEN [ret |-> FALSE, e |-> [e EXCEPT !.targets = Append(e.targets, floor)]]
    ELSE [ret |-> TRUE,
          e |-> [e EXCEPT !.targets =
                    IF e.direction = "down"
                    THEN SortDesc(Append(e.targets, floor))
                    ELSE SortAsc(Append(e.targets, floor))]]

\* add_target that does not look for the floor in the list
add_target_allows_duplicates(e, floor) ==
    IF ~can_serve_floor(e, floor)
    THEN [ret |-> FALSE, e |-> e]
    ELSE [ret |-> TRUE,
          e |-> [e EXCEPT !.targets =
                    IF e.direction = "down"
                    THEN SortDesc(Append(e.targets, floor))
                    ELSE SortAsc(Append(e.targets, floor))]]

\* Elevator.add_target: the value returned and the elevator afterwards
add_target(e, floor) ==
    IF ~can_serve_floor(e, floor) \/ Contains(e.targets, floor)
    THEN [ret |-> FALSE, e |-> e]
    ELSE [ret |-> TRUE,
          e |-> [e EXCEPT !.targets =
                    IF e.direction = "down"
                    THEN SortDesc(Append(e.targets, floor))
                    ELSE SortAsc(Append(e.targets, floor))]]

\* update_direction that always goes by the first target
update_direction_first_target(e) ==
    IF e.targets = <<>> THEN [e EXCEPT !.direction = "idle"]
    ELSE [e EXCEPT !.direction =
             IF e.targets[1] > e.current_floor THEN "up" ELSE "down"]

\* update_direction that keeps the direction of an elevator without targets
update_direction_keeps_heading(e) ==
    IF e.targets = <<>> THEN e
    ELSE IF e.direction = "idle"
         THEN [e EXCEPT !.direction =
                  IF e.targets[1] > e.current_floor THEN "up" ELSE "down"]
    ELSE IF e.direction = "up"
         THEN IF \A k \in 1..Len(e.targets) : e.targets[k] < e.current_floor
              THEN [e EXCEPT !.direction = "down",
                             !.targets = SortDesc(e.targets)]
              ELSE e
    ELSE IF e.direction = "down"
         THEN IF \A k \in 1..Len(e.targets) : e.targets[k] > e.current_floor
              THEN [e EXCEPT !.direction = "up",
                             !.targets = SortAsc(e.targets)]
              ELSE e
    ELSE e

\* update_direction that starts an idle elevator away from its first target
update_direction_reversed(e) ==
    IF e.targets = <<>> THEN [e EXCEPT !.direction = "idle"]
    ELSE IF e.direction = "idle"
         THEN [e EXCEPT !.direction =
                  IF e.targets[1] > e.current_floor THEN "down" ELSE "up"]
    ELSE IF e.direction = "up"
         THEN IF \A k \in 1..Len(e.targets) : e.targets[k] < e.current_floor
              THEN [e EXCEPT !.direction = "down",
                             !.targets = SortDesc(e.targets)]
              ELSE e
    ELSE IF e.direction = "down"
         THEN IF \A k \in 1..Len(e.targets) : e.targets[k] > e.current_floor
              THEN [e EXCEPT !.direction = "up",
                             !.targets = SortAsc(e.targets)]
              ELSE e
    ELSE e

update_direction(e) ==
    IF e.targets = <<>> THEN [e EXCEPT !.direction = "idle"]
    ELSE IF e.direction = "idle"
         THEN [e EXCEPT !.direction =
                  IF e.targets[1] > e.current_floor THEN "up" ELSE "down"]
    ELSE IF e.direction = "up"
         THEN IF \A k \in 1..Len(e.targets) : e.targets[k] < e.current_floor
              THEN [e EXCEPT !.direction = "down",
                             !.targets = SortDesc(e.targets)]
              ELSE e
    ELSE IF e.direction = "down"
         THEN IF \A k \in 1..Len(e.targets) : e.targets[k] > e.current_floor
              THEN [e EXCEPT !.direction = "up",
                             !.targets = SortAsc(e.targets)]
              ELSE e
    ELSE e

\* move that goes up whatever the direction
move_up_only(e) ==
    IF e.state # "moving" THEN e
    ELSE [e EXCEPT !.current_floor = e.current_floor + 1]

move(e) ==
    IF e.state # "moving" THEN e
    ELSE IF e.direction = "up"
         THEN [e EXCEPT !.current_floor = e.current_floor + 1]
    ELSE IF e.direction = "down"
         THEN [e EXCEPT !.current_floor = e.current_floor - 1]
    ELSE e

\* IDLE that starts moving without choosing a direction
UpdateIdle_keeps_direction(e) ==
    IF e.targets # <<>> THEN [e EXCEPT !.state = "moving"] ELSE e

\* IDLE that starts moving and moves a floor in the same tick
UpdateIdle_moves_at_once(e) ==
    IF e.targets # <<>>
    THEN move(update_direction([e EXCEPT !.state = "moving"]))
    ELSE e

\* Elevator.update, state IDLE
UpdateIdle(e) ==
    IF e.targets # <<>>
    THEN update_direction([e EXCEPT !.state = "moving"])
    ELSE e

\* MOVING that moves first and looks for a target afterwards
UpdateMoving_move_first(e) ==
    IF Contains(e.targets, move(e).current_floor)
    THEN [move(e) EXCEPT !.state = "door_opening", !.door_timer = DOOR_OPENING_TICKS]
    ELSE move(e)

\* MOVING that opens the doors in the tick in which it arrives
UpdateMoving_opens_on_arrival(e) ==
    IF Contains(e.targets, e.current_floor)
    THEN [e EXCEPT !.state = "door_opening", !.door_timer = DOOR_OPENING_TICKS]
    ELSE IF Contains(e.targets, move(e).current_floor)
    THEN [move(e) EXCEPT !.state = "door_opening", !.door_timer = DOOR_OPENING_TICKS]
    ELSE move(e)

\* Elevator.update, state MOVING
UpdateMoving(e) ==
    IF Contains(e.targets, e.current_floor)
    THEN [e EXCEPT !.state = "door_opening", !.door_timer = DOOR_OPENING_TICKS]
    ELSE move(e)

\* DOOR_OPENING that tests the timer before counting it down
UpdateDoorOpening_check_first(e) ==
    IF e.door_timer <= 0
    THEN [e EXCEPT !.state = "door_open", !.door_timer = DOOR_OPEN_TICKS]
    ELSE [e EXCEPT !.door_timer = e.door_timer - 1]

\* Elevator.update, state DOOR_OPENING
UpdateDoorOpening(e) ==
    IF e.door_timer - 1 <= 0
    THEN [e EXCEPT !.state = "door_open", !.door_timer = DOOR_OPEN_TICKS]
    ELSE [e EXCEPT !.door_timer = e.door_timer - 1]

\* DOOR_OPEN that tests the timer before counting it down
UpdateDoorOpen_check_first(e) ==
    IF e.door_timer <= 0
    THEN [e EXCEPT !.state = "door_closing", !.door_timer = DOOR_CLOSING_TICKS]
    ELSE [e EXCEPT !.door_timer = e.door_timer - 1]

\* DOOR_OPEN that takes the floor off the list when the doors start closing
UpdateDoorOpen_removes_floor(e) ==
    IF e.door_timer - 1 <= 0
    THEN [e EXCEPT !.state = "door_closing", !.door_timer = DOOR_CLOSING_TICKS,
                   !.targets = Remove(e.targets, e.current_floor)]
    ELSE [e EXCEPT !.door_timer = e.door_timer - 1]

\* Elevator.update, state DOOR_OPEN
UpdateDoorOpen(e) ==
    IF e.door_timer - 1 <= 0
    THEN [e EXCEPT !.state = "door_closing", !.door_timer = DOOR_CLOSING_TICKS]
    ELSE [e EXCEPT !.door_timer = e.door_timer - 1]

\* Elevator.update, state DOOR_CLOSING
UpdateDoorClosing(e) ==
    IF e.door_timer - 1 <= 0
    THEN update_direction(
            [e EXCEPT !.door_timer = e.door_timer - 1,
                      !.targets = IF Contains(e.targets, e.current_floor)
                                  THEN Remove(e.targets, e.current_floor)
                                  ELSE e.targets,
                      !.state = "idle"])
    ELSE [e EXCEPT !.door_timer = e.door_timer - 1]

\* the if/elif chain of Elevator.update, up to the trailing idle check
UpdateBranch(e) ==
    IF e.state = "idle" THEN UpdateIdle(e)
    ELSE IF e.state = "moving" THEN UpdateMoving(e)
    ELSE IF e.state = "door_opening" THEN UpdateDoorOpening(e)
    ELSE IF e.state = "door_open" THEN UpdateDoorOpen(e)
    ELSE IF e.state = "door_closing" THEN UpdateDoorClosing(e)
    ELSE e

\* Elevator.update that runs the if/elif chain twice in one tick
Elevator_update_twice(e) ==
    IF e.state = "emergency" THEN e
    ELSE LET u == UpdateBranch(UpdateBranch(e))
         IN  IF e.state # u.state /\ u.state = "idle"
             THEN update_direction(u)
             ELSE u

\* Elevator.update
Elevator_update(e) ==
    IF e.state = "emergency" THEN e
    ELSE LET u == UpdateBranch(e)
         IN  IF e.state # u.state /\ u.state = "idle"
             THEN update_direction(u)
             ELSE u

\* ------------------------------------ elevator_system.py: ElevatorSystem
\* ElevatorSystem.__init__
NewElevators == [id \in 1..num_elevators |-> NewElevator(id)]

\* find_elevator_for_floor: min(elevator.targets, key=lambda t: abs(t - floor)),
\* the first target of least distance to the floor
NearestTarget(e, floor) ==
    e.targets[CHOOSE k \in 1..Len(e.targets) :
                 \A j \in 1..Len(e.targets) :
                    \/ Abs(e.targets[k] - floor) < Abs(e.targets[j] - floor)
                    \/ (Abs(e.targets[k] - floor) = Abs(e.targets[j] - floor)
                        /\ k <= j)]

\* find_elevator_for_floor: the score of one eligible elevator (lower wins)
Score(e, floor, direction) ==
    LET base == Abs(e.current_floor - floor) * 2 + Len(e.targets) * 5
    IN  IF floor = 1
        THEN IF e.current_floor = 1
             THEN IF e.state = "idle" THEN 0
                  ELSE IF e.state # "moving" THEN 5
                  ELSE base
             ELSE IF Contains(e.targets, 1) THEN base + 10
             ELSE base
        ELSE base
             - (IF e.direction = direction
                   /\ ((direction = "up" /\ e.current_floor < floor)
                       \/ (direction = "down" /\ e.current_floor > floor))
                THEN 10 ELSE 0)
             - (IF e.state = "idle" THEN 5 ELSE 0)
             - (IF e.targets # <<>> /\ Abs(NearestTarget(e, floor) - floor) <= 5
                THEN 3 ELSE 0)

\* eligibility that forgets the EMERGENCY state
Eligible_in_emergency(els, floor) ==
    {i \in DOMAIN els : can_serve_floor(els[i], floor)}

\* find_elevator_for_floor: ids of the elevators eligible for the floor
Eligible(els, floor) ==
    {i \in DOMAIN els : can_serve_floor(els[i], floor) /\ els[i].state # "emergency"}

\* the loop with "score <= min_score": the last elevator of lowest score wins
RECURSIVE FindLoop_last_wins(_, _, _, _, _, _, _)
FindLoop_last_wins(els, eligible, i, floor, direction, best, min_score) ==
    IF i > Len(els) THEN best
    ELSE IF i \notin eligible
    THEN FindLoop_last_wins(els, eligible, i + 1, floor, direction, best, min_score)
    ELSE LET score == Score(els[i], floor, direction)
         IN  IF best = 0 \/ score <= min_score
             THEN FindLoop_last_wins(els, eligible, i + 1, floor, direction, i, score)
             ELSE FindLoop_last_wins(els, eligible, i + 1, floor, direction,
                                     best, min_score)

\* find_elevator_for_floor: the loop over the eligible elevators in list
\* order, from position i of the elevator list on; best is the id kept so
\* far (0 for None) and min_score its score (float('inf') while best is None)
RECURSIVE FindLoop(_, _, _, _, _, _, _)
FindLoop(els, eligible, i, floor, direction, best, min_score) ==
    IF i > Len(els) THEN best
    ELSE IF i \notin eligible
    THEN FindLoop(els, eligible, i + 1, floor, direction, best, min_score)
    ELSE LET score == Score(els[i], floor, direction)
         IN  IF best = 0 \/ score < min_score
             THEN FindLoop(els, eligible, i + 1, floor, direction, i, score)
             ELSE FindLoop(els, eligible, i + 1, floor, direction, best, min_score)

\* find_elevator_for_floor: the id of the elevator chosen, 0 for None
find_elevator_for_floor(els, floor, direction) ==
    IF floor < 1 \/ floor > num_floors THEN 0
    ELSE LET eligible_elevators == Eligible(els, floor)
         IN  IF eligible_elevators = {} THEN 0
             ELSE FindLoop(els, eligible_elevators, 1, floor, direction, 0, 0)

\* add_internal_request without the emergency check
add_internal_request_in_emergency(els, elevator_id, floor) ==
    IF elevator_id < 1 \/ elevator_id > Len(els) \/ floor < 1 \/ floor > num_floors
    THEN [ret |-> FALSE, elevators |-> els]
    ELSE IF ~can_serve_floor(els[elevator_id], floor)
    THEN [ret |-> FALSE, elevators |-> els]
    ELSE LET r == add_target(els[elevator_id], floor)
         IN  [ret |-> r.ret, elevators |-> [els EXCEPT ![elevator_id] = r.e]]

\* add_internal_request that checks the upper end of the elevator ids only;
\* self.elevators[elevator_id - 1] then counts a position below 0 from the
\* end of the list
add_internal_request_wraps_id(els, elevator_id, floor) ==
    IF elevator_id > Len(els) \/ floor < 1 \/ floor > num_floors
    THEN [ret |-> FALSE, elevators |-> els]
    ELSE LET id == IF elevator_id < 1 THEN Len(els) + elevator_id ELSE elevator_id
             r == add_target(els[id], floor)
         IN  IF ~can_serve_floor(els[id], floor) \/ els[id].state = "emergency"
             THEN [ret |-> FALSE, elevators |-> els]
             ELSE [ret |-> r.ret, elevators |-> [els EXCEPT ![id] = r.e]]

\* ElevatorSystem.add_internal_request: the value returned and the elevators
add_internal_request(els, elevator_id, floor) ==
    IF elevator_id < 1 \/ elevator_id > Len(els) \/ floor < 1 \/ floor > num_floors
    THEN [ret |-> FALSE, elevators |-> els]
    ELSE IF ~can_serve_floor(els[elevator_id], floor)
    THEN [ret |-> FALSE, elevators |-> els]
    ELSE IF els[elevator_id].state = "emergency"
    THEN [ret |-> FALSE, elevators |-> els]
    ELSE LET r == add_target(els[elevator_id], floor)
         IN  [ret |-> r.ret, elevators |-> [els EXCEPT ![elevator_id] = r.e]]

\* add_external_request: the ids of the elevators idle at the lobby
LobbyElevators(els) ==
    {i \in DOMAIN els : els[i].current_floor = 1 /\ els[i].state = "idle"}

\* add_external_request: the ids of the elevators with the lobby as a target
ComingToLobby(els) == {i \in DOMAIN els : Contains(els[i].targets, 1)}

Min(S) == CHOOSE x \in S : \A y \in S : x <= y

\* the scoring step that goes on to another eligible elevator when the best
\* one already has the floor
AssignBest_tries_next(els, floor, direction) ==
    LET id == find_elevator_for_floor(els, floor, direction)
        others == {i \in Eligible(els, floor) : ~Contains(els[i].targets, floor)}
    IN  IF id = 0 THEN [ret |-> FALSE, elevators |-> els]
        ELSE LET r == add_target(els[id], floor)
             IN  IF r.ret \/ others = {}
                 THEN [ret |-> r.ret, elevators |-> [els EXCEPT ![id] = r.e]]
                 ELSE [ret |-> TRUE,
                       elevators |-> [els EXCEPT ![Min(others)] =
                                         add_target(els[Min(others)], floor).e]]

\* add_external_request from the scoring step on
AssignBest(els, floor, direction) ==
    LET id == find_elevator_for_floor(els, floor, direction)
    IN  IF id = 0 THEN [ret |-> FALSE, elevators |-> els]
        ELSE LET r == add_target(els[id], floor)
             IN  [ret |-> r.ret, elevators |-> [els EXCEPT ![id] = r.e]]

\* the boundary check without its lobby half
InvalidDirectionAtBoundary_top_only(floor, direction) ==
    floor = num_floors /\ direction = "up"

\* add_external_request: an up request from the top floor or a down request
\* from the lobby
InvalidDirectionAtBoundary(floor, direction) ==
    \/ (floor = num_floors /\ direction = "up")
    \/ (floor = 1 /\ direction = "down")

\* add_external_request without the "already coming to lobby" shortcut
add_external_request_scores_lobby(els, floor, direction) ==
    IF floor < 1 \/ floor > num_floors THEN [ret |-> FALSE, elevators |-> els]
    ELSE IF InvalidDirectionAtBoundary(floor, direction)
    THEN [ret |-> FALSE, elevators |-> els]
    ELSE IF floor = 1 /\ LobbyElevators(els) # {}
    THEN add_internal_request(els, Min(LobbyElevators(els)), floor)
    ELSE AssignBest(els, floor, direction)

\* ElevatorSystem.add_external_request: the value returned and the elevators
add_external_request(els, floor, direction) ==
    IF floor < 1 \/ floor > num_floors THEN [ret |-> FALSE, elevators |-> els]
    ELSE IF InvalidDirectionAtBoundary(floor, direction)
    THEN [ret |-> FALSE, elevators |-> els]
    ELSE IF floor = 1 /\ LobbyElevators(els) # {}
    THEN add_internal_request(els, Min(LobbyElevators(els)), floor)
    ELSE IF floor = 1 /\ ComingToLobby(els) # {}
    THEN [ret |-> TRUE, elevators |-> els]
    ELSE AssignBest(els, floor, direction)

\* ElevatorSystem.emergency_stop: the elevators afterwards (returns True)
emergency_stop(els) == [i \in DOMAIN els |-> Elevator_emergency_stop(els[i])]

\* resume_service that returns False at the first elevator that does not
\* resume
RECURSIVE ResumeUntilFailure(_, _)
ResumeUntilFailure(els, i) ==
    IF i > Len(els) THEN els
    ELSE IF Elevator_resume_service_ret(els[i])
    THEN ResumeUntilFailure([els EXCEPT ![i] = Elevator_resume_service(els[i])], i + 1)
    ELSE els

resume_service_until_failure(els) ==
    [ret |-> \A i \in DOMAIN els : Elevator_resume_service_ret(els[i]),
     elevators |-> ResumeUntilFailure(els, 1)]

\* ElevatorSystem.resume_service: the value returned and the elevators
resume_service(els) ==
    [ret |-> \A i \in DOMAIN els : Elevator_resume_service_ret(els[i]),
     elevators |-> [i \in DOMAIN els |-> Elevator_resume_service(els[i])]]

\* ElevatorSystem.update: every elevator is updated once, in list order;
\* Elevator.update reads and writes its own elevator only
update(els) == [i \in DOMAIN els |-> Elevator_update(els[i])]

Bool(b) == IF b THEN "True" ELSE "False"

\* ------------------------------------------------- elevator.py: Elevator
max_weight == 2200

\* Elevator.floor_ranges
floor_ranges(zone) ==
    IF zone = "low_rise" THEN <<1, 20>>
    ELSE IF zone = "mid_rise" THEN <<21, 35>>
    ELSE <<36, 50>>

\* Elevator.__init__ (elevator.py)
Sys_NewElevator(id, zone) ==
    [id |-> id, zone |-> zone, current_floor |-> 1, target_floors |-> <<>>,
     direction |-> "idle", state |-> "idle", current_weight |-> 0]

\* target_floors is a dict floor -> direction: a sequence of entries in
\* insertion order
HasKey(d, key) == \E k \in 1..Len(d) : d[k].floor = key

\* d[key] = value: an existing key keeps its place, a new one goes last
DictSet(d, key, value) ==
    IF HasKey(d, key)
    THEN [k \in 1..Len(d) |->
             IF d[k].floor = key THEN [floor |-> key, direction |-> value] ELSE d[k]]
    ELSE Append(d, [floor |-> key, direction |-> value])

\* del d[key]
RECURSIVE DictDel(_, _)
DictDel(d, key) ==
    IF d = <<>> THEN <<>>
    ELSE IF Head(d).floor = key THEN Tail(d)
    ELSE <<Head(d)>> \o DictDel(Tail(d), key)

\* a setter that stores the value as it is
set_current_weight_uncapped(e, value) == [e EXCEPT !.current_weight = value]

\* the current_weight setter: min(value, self.max_weight)
set_current_weight(e, value) ==
    [e EXCEPT !.current_weight = IF value < max_weight THEN value ELSE max_weight]

Sys_can_serve_floor(e, floor) ==
    IF floor = 1 THEN TRUE
    ELSE floor_ranges(e.zone)[1] <= floor /\ floor <= floor_ranges(e.zone)[2]

\* add_request that sets the direction of the car as soon as it accepts
add_request_sets_direction(e, request) ==
    IF ~Sys_can_serve_floor(e, request.target_floor)
    THEN [ret |-> FALSE, e |-> e]
    ELSE IF request.request_type = "internal"
            /\ ~Sys_can_serve_floor(e, e.current_floor)
    THEN [ret |-> FALSE, e |-> e]
    ELSE [ret |-> TRUE,
          e |-> [e EXCEPT !.direction = request.direction,
                          !.target_floors =
                    DictSet(e.target_floors, request.target_floor, request.direction)]]

\* Elevator.add_request: the value returned and the elevator afterwards
add_request(e, request) ==
    IF ~Sys_can_serve_floor(e, request.target_floor)
    THEN [ret |-> FALSE, e |-> e]
    ELSE IF request.request_type = "internal"
            /\ ~Sys_can_serve_floor(e, e.current_floor)
    THEN [ret |-> FALSE, e |-> e]
    ELSE [ret |-> TRUE,
          e |-> [e EXCEPT !.target_floors =
                    DictSet(e.target_floors, request.target_floor, request.direction)]]

Sys_move(e) ==
    IF e.state # "moving" THEN e
    ELSE IF e.direction = "up"
         THEN [e EXCEPT !.current_floor = e.current_floor + 1]
    ELSE IF e.direction = "down"
         THEN [e EXCEPT !.current_floor = e.current_floor - 1]
    ELSE e

should_stop(e) == HasKey(e.target_floors, e.current_floor)

Sys_Elevator_emergency_stop(e) ==
    [e EXCEPT !.state = "emergency", !.direction = "idle", !.target_floors = <<>>]

\* the elevator after Elevator.resume_service (elevator.py)
Sys_Elevator_resume_service(e) ==
    IF e.state = "emergency" THEN [e EXCEPT !.state = "idle"] ELSE e

\* ------------------------------------------- system.py: ElevatorSystem
\* ElevatorSystem.__init__ (system.py)
Sys_NewElevators ==
    [id \in 1..6 |->
        Sys_NewElevator(id, IF id <= 2 THEN "low_rise"
                            ELSE IF id <= 4 THEN "mid_rise" ELSE "high_rise")]

\* ElevatorSystem.add_internal_request (system.py): the value returned, the
\* elevators and the request queue afterwards
Sys_add_internal_request(els, queue, elevator_id, target_floor) ==
    IF ~(1 <= elevator_id /\ elevator_id <= Len(els)
         /\ 1 <= target_floor /\ target_floor <= num_floors)
    THEN [ret |-> FALSE, elevators |-> els, queue |-> queue]
    ELSE LET e == els[elevator_id]
             request == [source_floor |-> e.current_floor,
                         target_floor |-> target_floor,
                         direction |-> IF target_floor > e.current_floor
                                       THEN "up" ELSE "down",
                         request_type |-> "internal"]
             r == add_request(e, request)
         IN  IF r.ret
             THEN [ret |-> TRUE, elevators |-> [els EXCEPT ![elevator_id] = r.e],
                   queue |-> queue (+) SetToBag({request})]
             ELSE [ret |-> FALSE, elevators |-> els, queue |-> queue]

\* add_external_request (system.py): the zone looked for
TargetZone(floor) ==
    IF floor = 1 THEN "low_rise"
    ELSE IF 1 <= floor /\ floor <= 20 THEN "low_rise"
    ELSE IF 21 <= floor /\ floor <= 35 THEN "mid_rise"
    ELSE "high_rise"

\* add_external_request (system.py): the score of one candidate
Sys_Score(e, floor, direction) ==
    Abs(e.current_floor - floor) * 2 + Len(e.target_floors) * 3
    - (IF e.direction = direction THEN 5 ELSE 0)

\* add_external_request (system.py): the ids of the candidates
Candidates(els, floor) ==
    {i \in DOMAIN els : els[i].zone = TargetZone(floor) \/ floor = 1}

\* add_external_request (system.py): the id of the elevator chosen, 0 for
\* None; the loop keeps the first elevator of strictly lowest score
best_elevator(els, floor, direction) ==
    IF Candidates(els, floor) = {} THEN 0
    ELSE CHOOSE i \in Candidates(els, floor) :
            \A j \in Candidates(els, floor) :
               \/ Sys_Score(els[i], floor, direction) < Sys_Score(els[j], floor, direction)
               \/ (Sys_Score(els[i], floor, direction) = Sys_Score(els[j], floor, direction)
                   /\ i <= j)

\* ElevatorSystem.add_external_request (system.py)
Sys_add_external_request(els, queue, floor, direction) ==
    IF ~(1 <= floor /\ floor <= num_floors)
    THEN [ret |-> FALSE, elevators |-> els, queue |-> queue]
    ELSE LET id == best_elevator(els, floor, direction)
             request == [source_floor |-> floor, target_floor |-> floor,
                         direction |-> direction, request_type |-> "external"]
         IN  IF id = 0 THEN [ret |-> FALSE, elevators |-> els, queue |-> queue]
             ELSE LET r == add_request(els[id], request)
                  IN  IF r.ret
                      THEN [ret |-> TRUE, elevators |-> [els EXCEPT ![id] = r.e],
                            queue |-> queue (+) SetToBag({request})]
                      ELSE [ret |-> FALSE, elevators |-> els, queue |-> queue]

\* step that looks for a target before it moves, as elevator_system.py does
StepElevator_stop_first(e) ==
    IF e.state = "emergency" THEN e
    ELSE IF e.state = "idle"
    THEN IF e.target_floors # <<>>
         THEN [e EXCEPT !.direction = IF e.target_floors[1].floor > e.current_floor
                                      THEN "up" ELSE "down",
                        !.state = "moving"]
         ELSE e
    ELSE IF e.state = "moving"
    THEN IF should_stop(e) THEN [e EXCEPT !.state = "door_opening"]
         ELSE Sys_move(e)
    ELSE IF e.state = "door_opening" THEN [e EXCEPT !.state = "door_open"]
    ELSE IF e.state = "door_open" THEN [e EXCEPT !.state = "door_closing"]
    ELSE IF e.state = "door_closing"
    THEN LET d == IF HasKey(e.target_floors, e.current_floor)
                  THEN DictDel(e.target_floors, e.current_floor)
                  ELSE e.target_floors
         IN  [e EXCEPT !.target_floors = d, !.state = "idle",
                       !.direction = IF d = <<>> THEN "idle" ELSE e.direction]
    ELSE e

\* ElevatorSystem.step (system.py): the body of the loop, for one elevator
StepElevator(e) ==
    IF e.state = "emergency" THEN e
    ELSE IF e.state = "idle"
    THEN IF e.target_floors # <<>>
         THEN [e EXCEPT !.direction = IF e.target_floors[1].floor > e.current_floor
                                      THEN "up" ELSE "down",
                        !.state = "moving"]
         ELSE e
    ELSE IF e.state = "moving"
    THEN LET m == Sys_move(e)
         IN  IF should_stop(m) THEN [m EXCEPT !.state = "door_opening"] ELSE m
    ELSE IF e.state = "door_opening" THEN [e EXCEPT !.state = "door_open"]
    ELSE IF e.state = "door_open" THEN [e EXCEPT !.state = "door_closing"]
    ELSE IF e.state = "door_closing"
    THEN LET d == IF HasKey(e.target_floors, e.current_floor)
                  THEN DictDel(e.target_floors, e.current_floor)
                  ELSE e.target_floors
         IN  [e EXCEPT !.target_floors = d, !.state = "idle",
                       !.direction = IF d = <<>> THEN "idle" ELSE e.direction]
    ELSE e

\* ElevatorSystem.step (system.py)
step(els) == [i \in DOMAIN els |-> StepElevator(els[i])]

\* ---------------------------------------------------------------- actions
\* api.py at import: the thread has not run yet, the cache is None
ServiceInit ==
    /\ tick = [pc |-> "sleep", i |-> 0, last_state |-> "None", skipped |-> 0]
    /\ status_cache = <<>>
    /\ cache_targets = <<>>
    /\ status = <<>>
    /\ serial_before = <<>>
    /\ serial_after = {}
    /\ stopped = FALSE

DoorStates == {"door_opening", "door_open", "door_closing"}

\* the ticks each elevator has spent in its door state after a call that
\* took the elevators from before to after; ticked tells whether the call
\* was a tick
Dwell(before, after, ticked) ==
    [i \in DOMAIN after |->
        IF after[i].state \notin DoorStates \/ after[i].state # before[i].state
        THEN 0
        ELSE dwell[i] + (IF ticked THEN 1 ELSE 0)]

InitCommon ==
    /\ elevators = NewElevators
    /\ sys_elevators = Sys_NewElevators
    /\ request_queue = EmptyBag
    /\ last_call = [op |-> "init"]
    /\ ret = "None"
    /\ requests = 0
    /\ scenario_ticks = -1
    /\ lobby_dispatch = {}
    /\ dwell = [i \in DOMAIN elevators |-> 0]
    /\ ServiceInit

\* a process that has constructed elevator_system.ElevatorSystem
Init == engine = "elevator_system" /\ InitCommon

\* a process that has constructed system.ElevatorSystem
SysInit == engine = "system" /\ InitCommon

sys_vars == <<sys_elevators, request_queue>>

\* the elevators an external lobby call has dispatched and that still have
\* floor 1 pending
StillDispatched(els) == {i \in lobby_dispatch : Contains(els[i].targets, 1)}

\* the elevators to which a call has given floor 1 as a target
GainedLobby(before, after) ==
    {i \in DOMAIN before :
        ~Contains(before[i].targets, 1) /\ Contains(after[i].targets, 1)}

\* the number of request calls followed on the system constructed
RequestBudget ==
    IF Len(elevators) = SmallNumElevators THEN MaxSmallRequests ELSE MaxRequests

AddInternalRequest ==
    /\ engine = "elevator_system"
    /\ requests < RequestBudget
    /\ \E elevator_id \in RequestElevatorIds, floor \in InternalFloors :
          LET r == add_internal_request(elevators, elevator_id, floor)
          IN  /\ elevators' = r.elevators
              /\ ret' = Bool(r.ret)
              /\ last_call' = [op |-> "add_internal_request",
                               elevator_id |-> elevator_id, floor |-> floor]
              /\ scenario_ticks' =
                    IF elevators = NewElevators /\ elevator_id = 1 /\ floor = 5
                    THEN 0 ELSE -1
    /\ requests' = requests + 1
    /\ lobby_dispatch' = lobby_dispatch
    /\ UNCHANGED <<engine, sys_vars>>
    /\ dwell' = Dwell(elevators, elevators', FALSE)
    /\ UNCHANGED svc_vars

AddExternalRequest ==
    /\ engine = "elevator_system"
    /\ requests < RequestBudget
    /\ \E floor \in ExternalFloors, direction \in RequestDirections :
          LET r == add_external_request(elevators, floor, direction)
          IN  /\ elevators' = r.elevators
              /\ ret' = Bool(r.ret)
              /\ last_call' = [op |-> "add_external_request",
                               floor |-> floor, direction |-> direction]
              /\ lobby_dispatch' =
                    lobby_dispatch \cup GainedLobby(elevators, r.elevators)
    /\ requests' = requests + 1
    /\ scenario_ticks' = -1
    /\ UNCHANGED <<engine, sys_vars>>
    /\ dwell' = Dwell(elevators, elevators', FALSE)
    /\ UNCHANGED svc_vars

EmergencyStop ==
    /\ engine = "elevator_system"
    /\ elevators' = emergency_stop(elevators)
    /\ ret' = "True"
    /\ last_call' = [op |-> "emergency_stop"]
    /\ scenario_ticks' = -1
    /\ lobby_dispatch' = StillDispatched(elevators')
    /\ UNCHANGED <<engine, sys_vars, requests>>
    /\ dwell' = Dwell(elevators, elevators', FALSE)
    /\ UNCHANGED svc_vars

ResumeService ==
    /\ engine = "elevator_system"
    /\ elevators' = resume_service(elevators).elevators
    /\ ret' = Bool(resume_service(elevators).ret)
    /\ last_call' = [op |-> "resume_service"]
    /\ scenario_ticks' = -1
    /\ lobby_dispatch' = StillDispatched(elevators')
    /\ UNCHANGED <<engine, sys_vars, requests>>
    /\ dwell' = Dwell(elevators, elevators', FALSE)
    /\ UNCHANGED svc_vars

Update ==
    /\ engine = "elevator_system"
    /\ elevators' = update(elevators)
    /\ ret' = "None"
    /\ last_call' = [op |-> "update"]
    /\ scenario_ticks' =
          IF scenario_ticks < 0 \/ scenario_ticks >= MaxScenarioTicks
          THEN scenario_ticks ELSE scenario_ticks + 1
    /\ lobby_dispatch' = StillDispatched(elevators')
    /\ UNCHANGED <<engine, sys_vars, requests>>
    /\ dwell' = Dwell(elevators, elevators', TRUE)
    /\ UNCHANGED svc_vars

Next ==
    \/ AddInternalRequest
    \/ AddExternalRequest
    \/ EmergencyStop
    \/ ResumeService
    \/ Update

Spec == Init /\ [][Next]_vars

\* Elevator.emergency_stop (elevator_system.py) called on one car
ElevatorEmergencyStop ==
    /\ engine = "elevator_system"
    /\ \E id \in CarStopIds :
          /\ elevators' = [elevators EXCEPT ![id] = Elevator_emergency_stop(@)]
          /\ last_call' = [op |-> "Elevator.emergency_stop", elevator_id |-> id]
    /\ ret' = "True"
    /\ scenario_ticks' = -1
    /\ lobby_dispatch' = StillDispatched(elevators')
    /\ UNCHANGED <<engine, sys_vars, requests>>
    /\ dwell' = Dwell(elevators, elevators', FALSE)
    /\ UNCHANGED svc_vars

\* a process that has constructed elevator_system.ElevatorSystem(50, 2)
SmallInit ==
    /\ engine = "elevator_system"
    /\ elevators = [id \in 1..SmallNumElevators |-> NewElevator(id)]
    /\ sys_elevators = Sys_NewElevators
    /\ request_queue = EmptyBag
    /\ last_call = [op |-> "init"]
    /\ ret = "None"
    /\ requests = 0
    /\ scenario_ticks = -1
    /\ lobby_dispatch = {}
    /\ dwell = [i \in DOMAIN elevators |-> 0]
    /\ ServiceInit

SpecSmall == SmallInit /\ [][Next]_vars

\* add_internal_request on elevator 1 of the two-elevator system for the
\* three lowest floors, which gives a car targets on both sides of its floor
AddNearbyRequest ==
    /\ engine = "elevator_system"
    /\ requests < MaxSmallRequests
    /\ \E elevator_id \in NearbyElevatorIds, floor \in NearbyFloors :
          LET r == add_internal_request(elevators, elevator_id, floor)
          IN  /\ elevators' = r.elevators
              /\ ret' = Bool(r.ret)
              /\ last_call' = [op |-> "add_internal_request",
                               elevator_id |-> elevator_id, floor |-> floor]
    /\ requests' = requests + 1
    /\ scenario_ticks' = -1
    /\ lobby_dispatch' = lobby_dispatch
    /\ UNCHANGED <<engine, sys_vars>>
    /\ dwell' = Dwell(elevators, elevators', FALSE)
    /\ UNCHANGED svc_vars

NearbyNext ==
    \/ AddNearbyRequest
    \/ EmergencyStop
    \/ ResumeService
    \/ Update

SpecNearby == SmallInit /\ [][NearbyNext]_vars

\* Elevator.add_target called on elevator 1 of the two-elevator system, with
\* floors of its zone and one floor outside it
AddTarget ==
    /\ engine = "elevator_system"
    /\ requests < MaxSmallRequests
    /\ \E elevator_id \in NearbyElevatorIds, floor \in TargetFloors :
          LET r == add_target(elevators[elevator_id], floor)
          IN  /\ elevators' = [elevators EXCEPT ![elevator_id] = r.e]
              /\ ret' = Bool(r.ret)
              /\ last_call' = [op |-> "add_target",
                               elevator_id |-> elevator_id, floor |-> floor]
    /\ requests' = requests + 1
    /\ scenario_ticks' = -1
    /\ lobby_dispatch' = lobby_dispatch
    /\ UNCHANGED <<engine, sys_vars>>
    /\ dwell' = Dwell(elevators, elevators', FALSE)
    /\ UNCHANGED svc_vars

TargetNext == NearbyNext \/ AddTarget

SpecTarget == SmallInit /\ [][TargetNext]_vars

\* a loop body that keeps an idle elevator idle while another one is moving
UpdateOne_waits_for_others(els, i) ==
    IF /\ els[i].state = "idle"
       /\ \E j \in DOMAIN els : j # i /\ els[j].state = "moving"
    THEN els
    ELSE [els EXCEPT ![i] = Elevator_update(els[i])]

\* the body of ElevatorSystem.update's loop for the elevator at position i
UpdateOne(els, i) == [els EXCEPT ![i] = Elevator_update(els[i])]

\* ElevatorSystem.update with its loop going through the positions in order
RECURSIVE UpdateInOrder(_, _)
UpdateInOrder(els, order) ==
    IF order = <<>> THEN els
    ELSE UpdateInOrder(UpdateOne(els, Head(order)), Tail(order))

\* the orders in which n elevators can be gone through
Orders(n) ==
    {p \in [1..n -> 1..n] : \A a, b \in 1..n : a # b => p[a] # p[b]}

\* a tick of the two-elevator system that takes the elevators in some order
UpdateInSomeOrder ==
    /\ engine = "elevator_system"
    /\ \E order \in Orders(Len(elevators)) :
          /\ elevators' = UpdateInOrder(elevators, order)
          /\ last_call' = [op |-> "update", order |-> order]
    /\ ret' = "None"
    /\ scenario_ticks' = -1
    /\ lobby_dispatch' = StillDispatched(elevators')
    /\ UNCHANGED <<engine, sys_vars, requests>>
    /\ dwell' = Dwell(elevators, elevators', TRUE)
    /\ UNCHANGED svc_vars

OrderNext ==
    \/ AddInternalRequest
    \/ AddExternalRequest
    \/ EmergencyStop
    \/ ResumeService
    \/ UpdateInSomeOrder

SpecOrder == SmallInit /\ [][OrderNext]_vars

\* add_internal_request on elevator 1 of the two-elevator system with no end
\* to the requests: further requests keep coming while it travels
KeepRequesting ==
    /\ engine = "elevator_system"
    /\ \E elevator_id \in NearbyElevatorIds, floor \in NearbyFloors :
          LET r == add_internal_request(elevators, elevator_id, floor)
          IN  /\ elevators' = r.elevators
              /\ ret' = Bool(r.ret)
              /\ last_call' = [op |-> "add_internal_request",
                               elevator_id |-> elevator_id, floor |-> floor]
    /\ scenario_ticks' = -1
    /\ lobby_dispatch' = lobby_dispatch
    /\ UNCHANGED <<engine, sys_vars, requests>>
    /\ dwell' = Dwell(elevators, elevators', FALSE)
    /\ UNCHANGED svc_vars

LiveNext ==
    \/ KeepRequesting
    \/ Update

\* ticks keep occurring (the service's update loop never ends) and there is
\* no emergency stop
SpecLive == SmallInit /\ [][LiveNext]_vars /\ WF_vars(Update)

\* the two-elevator system with emergency stops of single cars as well
CarStopNext == Next \/ ElevatorEmergencyStop

SpecCarStop == SmallInit /\ [][CarStopNext]_vars

\* elevator_system.ElevatorSystem with six or with two elevators
SizesInit == Init \/ SmallInit

SpecSizes == SizesInit /\ [][Next]_vars

SysAddInternalRequest ==
    /\ engine = "system"
    /\ requests < MaxRequests
    /\ \E elevator_id \in RequestElevatorIds, floor \in SysInternalFloors :
          LET r == Sys_add_internal_request(sys_elevators, request_queue,
                                            elevator_id, floor)
          IN  /\ sys_elevators' = r.elevators
              /\ request_queue' = r.queue
              /\ ret' = Bool(r.ret)
              /\ last_call' = [op |-> "add_internal_request",
                               elevator_id |-> elevator_id, floor |-> floor]
    /\ requests' = requests + 1
    /\ UNCHANGED <<engine, elevators, scenario_ticks, lobby_dispatch>>
    /\ UNCHANGED <<dwell, svc_vars>>

SysAddExternalRequest ==
    /\ engine = "system"
    /\ requests < MaxRequests
    /\ \E floor \in SysExternalFloors, direction \in RequestDirections :
          LET r == Sys_add_external_request(sys_elevators, request_queue,
                                            floor, direction)
          IN  /\ sys_elevators' = r.elevators
              /\ request_queue' = r.queue
              /\ ret' = Bool(r.ret)
              /\ last_call' = [op |-> "add_external_request",
                               floor |-> floor, direction |-> direction]
    /\ requests' = requests + 1
    /\ UNCHANGED <<engine, elevators, scenario_ticks, lobby_dispatch>>
    /\ UNCHANGED <<dwell, svc_vars>>

\* a car is followed no further than MaxOverrun floors past the building
SysStep ==
    /\ engine = "system"
    /\ \A i \in DOMAIN sys_elevators :
          /\ sys_elevators[i].current_floor >= 1 - MaxOverrun
          /\ sys_elevators[i].current_floor <= num_floors + MaxOverrun
    /\ sys_elevators' = step(sys_elevators)
    /\ ret' = "None"
    /\ last_call' = [op |-> "step"]
    /\ UNCHANGED <<engine, elevators, request_queue, requests, scenario_ticks,
                   lobby_dispatch>>
    /\ UNCHANGED <<dwell, svc_vars>>

\* Elevator.emergency_stop (elevator.py) on one car
SysEmergencyStop ==
    /\ engine = "system"
    /\ \E id \in EmergencyElevatorIds :
          /\ sys_elevators' =
                [sys_elevators EXCEPT ![id] = Sys_Elevator_emergency_stop(@)]
          /\ last_call' = [op |-> "emergency_stop", elevator_id |-> id]
    /\ ret' = "True"
    /\ UNCHANGED <<engine, elevators, request_queue, requests, scenario_ticks,
                   lobby_dispatch>>
    /\ UNCHANGED <<dwell, svc_vars>>

\* Elevator.resume_service (elevator.py) on one car
SysResumeService ==
    /\ engine = "system"
    /\ \E id \in EmergencyElevatorIds :
          /\ sys_elevators' =
                [sys_elevators EXCEPT ![id] = Sys_Elevator_resume_service(@)]
          /\ ret' = Bool(sys_elevators[id].state = "emergency")
          /\ last_call' = [op |-> "resume_service", elevator_id |-> id]
    /\ UNCHANGED <<engine, elevators, request_queue, requests, scenario_ticks,
                   lobby_dispatch>>
    /\ UNCHANGED <<dwell, svc_vars>>

\* elevator.current_weight = value (elevator.py)
SetCurrentWeight ==
    /\ engine = "system"
    /\ \E id \in WeightElevatorIds, value \in Weights :
          /\ sys_elevators' =
                [sys_elevators EXCEPT ![id] = set_current_weight(@, value)]
          /\ last_call' = [op |-> "current_weight", elevator_id |-> id,
                           value |-> value]
    /\ ret' = "None"
    /\ UNCHANGED <<engine, elevators, request_queue, requests, scenario_ticks,
                   lobby_dispatch, dwell, svc_vars>>

\* a fresh system.ElevatorSystem whose elevators are loaded and unloaded
SpecWeight == SysInit /\ [][SetCurrentWeight]_vars

SysNext ==
    \/ SysAddInternalRequest
    \/ SysAddExternalRequest
    \/ SysStep
    \/ SysEmergencyStop
    \/ SysResumeService

SpecSys == SysInit /\ [][SysNext]_vars

\* either engine
BothInit == Init \/ SysInit

BothNext == Next \/ SysNext

SpecBoth == BothInit /\ [][BothNext]_vars

\* either engine, elevator_system.ElevatorSystem with six or two elevators
AllInit == Init \/ SmallInit \/ SysInit

SpecAll == AllInit /\ [][BothNext]_vars

\* Elevator.can_serve_floor asked of an elevator of a fresh system: of
\* elevator_system.ElevatorSystem ...
CanServeFloor ==
    /\ engine = "elevator_system"
    /\ \E elevator_id \in 1..num_elevators, floor \in 1..num_floors :
          /\ ret' = Bool(can_serve_floor(elevators[elevator_id], floor))
          /\ last_call' = [op |-> "can_serve_floor",
                           elevator_id |-> elevator_id, floor |-> floor]
    /\ UNCHANGED <<engine, elevators, sys_vars, requests, scenario_ticks,
                   lobby_dispatch>>
    /\ UNCHANGED <<dwell, svc_vars>>

\* ... and of system.ElevatorSystem
SysCanServeFloor ==
    /\ engine = "system"
    /\ \E elevator_id \in 1..num_elevators, floor \in 1..num_floors :
          /\ ret' = Bool(Sys_can_serve_floor(sys_elevators[elevator_id], floor))
          /\ last_call' = [op |-> "can_serve_floor",
                           elevator_id |-> elevator_id, floor |-> floor]
    /\ UNCHANGED <<engine, elevators, sys_vars, requests, scenario_ticks,
                   lobby_dispatch>>
    /\ UNCHANGED <<dwell, svc_vars>>

ServeNext == CanServeFloor \/ SysCanServeFloor

SpecServe == BothInit /\ [][ServeNext]_vars

\* ------------------------------------------------ api.py: the running service
\* api.system = ElevatorSystem(num_floors=50, num_elevators=6), shared by the
\* background thread update_system and the request handlers, which run on
\* the event loop's thread; api.py takes no lock.  The thread is followed
\* through Elevator.update and can be interrupted before each of update's
\* assignments to an attribute of the elevator: one step of the thread is
\* an assignment and the tests that follow it, one step of the event loop
\* is a handler call.

\* Inputs of the handlers: a low-rise elevator and an id past the list, the
\* lobby and the floor above it
ServiceElevatorIds == {1, 7}
ServiceFloors == {1, 2}

\* where the thread stands after a statement of Elevator.update, which is
\* named by its line in elevator_system.py
Stmt(e, last_state, pc) == [e |-> e, last_state |-> last_state, pc |-> pc]

\* Elevator.update, the statement at line pc: the elevator, _last_state and
\* the line reached ("return" once update has returned)
UpdateStatement(e, last_state, pc) ==
    CASE pc = "L115" ->
            Stmt(e, last_state, IF e.state = "emergency" THEN "return" ELSE "L119")
      [] pc = "L119" -> Stmt(e, e.state, "L121")
      [] pc = "L121" ->
            Stmt(e, last_state,
                 IF e.state = "idle" THEN "L122"
                 ELSE IF e.state = "moving" THEN "L127"
                 ELSE IF e.state = "door_opening" THEN "L134"
                 ELSE IF e.state = "door_open" THEN "L140"
                 ELSE IF e.state = "door_closing" THEN "L146"
                 ELSE "L154")
      [] pc = "L122" ->
            Stmt(e, last_state, IF e.targets # <<>> THEN "L123" ELSE "L154")
      [] pc = "L123" -> Stmt([e EXCEPT !.state = "moving"], last_state, "L124")
      [] pc = "L124" -> Stmt(update_direction(e), last_state, "L154")
      [] pc = "L127" ->
            Stmt(e, last_state,
                 IF Contains(e.targets, e.current_floor) THEN "L128" ELSE "L131")
      [] pc = "L128" ->
            Stmt([e EXCEPT !.state = "door_opening"], last_state, "L129")
      [] pc = "L129" ->
            Stmt([e EXCEPT !.door_timer = DOOR_OPENING_TICKS], last_state, "L154")
      [] pc = "L131" -> Stmt(move(e), last_state, "L154")
      [] pc \in {"L134", "L140", "L146"} ->
            Stmt([e EXCEPT !.door_timer = e.door_timer - 1], last_state,
                 IF pc = "L134" THEN "L135"
                 ELSE IF pc = "L140" THEN "L141" ELSE "L147")
      [] pc = "L135" ->
            Stmt(e, last_state, IF e.door_timer <= 0 THEN "L136" ELSE "L154")
      [] pc = "L136" -> Stmt([e EXCEPT !.state = "door_open"], last_state, "L137")
      [] pc = "L137" ->
            Stmt([e EXCEPT !.door_timer = DOOR_OPEN_TICKS], last_state, "L154")
      [] pc = "L141" ->
            Stmt(e, last_state, IF e.door_timer <= 0 THEN "L142" ELSE "L154")
      [] pc = "L142" ->
            Stmt([e EXCEPT !.state = "door_closing"], last_state, "L143")
      [] pc = "L143" ->
            Stmt([e EXCEPT !.door_timer = DOOR_CLOSING_TICKS], last_state, "L154")
      [] pc = "L147" ->
            Stmt(e, last_state, IF e.door_timer <= 0 THEN "L148" ELSE "L154")
      [] pc = "L148" ->
            Stmt(e, last_state,
                 IF Contains(e.targets, e.current_floor) THEN "L149" ELSE "L150")
      [] pc = "L149" ->
            Stmt([e EXCEPT !.targets = Remove(e.targets, e.current_floor)],
                 last_state, "L150")
      [] pc = "L150" -> Stmt([e EXCEPT !.state = "idle"], last_state, "L151")
      [] pc = "L151" -> Stmt(update_direction(e), last_state, "L154")
      [] pc = "L154" ->
            Stmt(e, last_state,
                 IF last_state # e.state /\ e.state = "idle"
                 THEN "L155" ELSE "return")
      [] pc = "L155" -> Stmt(update_direction(e), last_state, "return")

\* the lines of Elevator.update that assign nothing but _last_state, which
\* no other method reads
ReadLines ==
    {"L115", "L119", "L121", "L122", "L127", "L135", "L141", "L147", "L148",
     "L154"}

\* system.update() from line pc of elevator i's update up to the next
\* assignment, through the elevators that follow if need be: the elevators,
\* and where the thread stands ("api52" once system.update() has returned)
RECURSIVE RunToAssignment(_, _, _, _)
RunToAssignment(els, i, last_state, pc) ==
    LET r == UpdateStatement(els[i], last_state, pc)
        after == [els EXCEPT ![i] = r.e]
    IN  IF r.pc = "return"
        THEN IF i < Len(els)
             THEN RunToAssignment(after, i + 1, "None", "L115")
             ELSE [elevators |-> after, i |-> 0, last_state |-> "None",
                   pc |-> "api52"]
        ELSE IF r.pc \in ReadLines
        THEN RunToAssignment(after, i, r.last_state, r.pc)
        ELSE [elevators |-> after, i |-> i, last_state |-> r.last_state,
              pc |-> r.pc]

\* add_elevator_request: the HTTP status of the response and the elevators
add_elevator_request(els, elevator_id, target_floor) ==
    IF elevator_id < 1 \/ elevator_id > Len(els)
    THEN [ret |-> "404", elevators |-> els]
    ELSE IF target_floor < 1 \/ target_floor > num_floors
    THEN [ret |-> "400", elevators |-> els]
    ELSE IF ~can_serve_floor(els[elevator_id], target_floor)
    THEN [ret |-> "400", elevators |-> els]
    ELSE IF els[elevator_id].state = "emergency"
    THEN [ret |-> "400", elevators |-> els]
    ELSE LET r == add_internal_request(els, elevator_id, target_floor)
         IN  [ret |-> IF r.ret THEN "200" ELSE "400", elevators |-> r.elevators]

\* add_floor_request: the ids of the elevators that have the floor pending
Serving(els, floor_number) ==
    {i \in DOMAIN els : Contains(els[i].targets, floor_number)}

\* add_floor_request: the HTTP status of the response and the elevators
add_floor_request(els, floor_number, direction) ==
    IF floor_number < 1 \/ floor_number > num_floors
    THEN [ret |-> "400", elevators |-> els]
    ELSE IF InvalidDirectionAtBoundary(floor_number, direction)
    THEN [ret |-> "400", elevators |-> els]
    ELSE LET r == add_external_request(els, floor_number, direction)
         IN  IF floor_number = 1
             THEN [ret |-> IF r.ret \/ ComingToLobby(r.elevators) # {}
                           THEN "200" ELSE "400",
                   elevators |-> r.elevators]
             ELSE IF Serving(els, floor_number) # {}
             THEN [ret |-> IF els[Min(Serving(els, floor_number))].direction
                                 = direction
                           THEN "200" ELSE "400",
                   elevators |-> els]
             ELSE [ret |-> IF r.ret THEN "200" ELSE "400",
                   elevators |-> r.elevators]

\* the dict the status handlers and the cache build for one elevator
ElevatorStatus(e, targets) ==
    [id |-> e.id, current_floor |-> e.current_floor, direction |-> e.direction,
     state |-> e.state, target_floors |-> targets, door_open |-> door_open(e)]

\* the thread is inside system.update()
InTick == tick.pc \notin {"sleep", "api52"}

\* what a handler call Op leaves of the two serial histories of the tick in
\* progress
Serialise(Op(_)) ==
    /\ serial_before' = IF InTick THEN Op(serial_before) ELSE <<>>
    /\ serial_after' =
          IF InTick
          THEN {Op(x) : x \in serial_after \cup {update(serial_before)}}
          ELSE {}

\* update_system: time.sleep is over, system.update() is entered
TickBegin ==
    /\ engine = "elevator_system"
    /\ tick.pc = "sleep"
    /\ tick' = [tick EXCEPT !.pc = "L115", !.i = 1, !.last_state = "None"]
    /\ serial_before' = elevators
    /\ serial_after' = {}
    /\ last_call' = [op |-> "update_system"]
    /\ ret' = "None"
    /\ status' = <<>>
    /\ UNCHANGED <<engine, elevators, sys_vars, requests, scenario_ticks,
                   lobby_dispatch, dwell, status_cache, cache_targets, stopped>>

\* update_system: system.update() goes on from where the thread stands to
\* its next assignment; once the last elevator's update has returned the
\* thread is at api.py line 52
TickStatement ==
    /\ engine = "elevator_system"
    /\ InTick
    /\ LET r == RunToAssignment(elevators, tick.i, tick.last_state, tick.pc)
       IN  /\ elevators' = r.elevators
           /\ tick' = [tick EXCEPT !.pc = r.pc, !.i = r.i,
                                   !.last_state = r.last_state]
           /\ IF r.pc = "api52"
              THEN serial_before' = <<>> /\ serial_after' = {}
              ELSE UNCHANGED <<serial_before, serial_after>>
    /\ last_call' = [op |-> "update_system"]
    /\ ret' = "None"
    /\ status' = <<>>
    /\ lobby_dispatch' = StillDispatched(elevators')
    /\ UNCHANGED <<engine, sys_vars, requests, scenario_ticks, dwell,
                   status_cache, cache_targets, stopped>>

\* update_system, api.py lines 52-67: the cache is rebuilt when its time to
\* live (two sleeps) has expired, which it has at the first pass and may
\* have at any pass (the clock is not the thread's); then the thread sleeps
TickCache ==
    /\ engine = "elevator_system"
    /\ tick.pc = "api52"
    /\ \E expired \in BOOLEAN :
          /\ (status_cache = <<>> \/ tick.skipped >= 1) => expired
          /\ IF expired
             THEN /\ status_cache' =
                        [i \in DOMAIN elevators |->
                            ElevatorStatus(elevators[i], "e.targets")]
                  /\ cache_targets' =
                        [i \in DOMAIN elevators |-> elevators[i].targets]
                  /\ tick' = [tick EXCEPT !.pc = "sleep", !.skipped = 0]
             ELSE /\ UNCHANGED <<status_cache, cache_targets>>
                  /\ tick' = [tick EXCEPT !.pc = "sleep",
                                          !.skipped = tick.skipped + 1]
    /\ last_call' = [op |-> "update_system"]
    /\ ret' = "None"
    /\ status' = <<>>
    /\ UNCHANGED <<engine, elevators, sys_vars, requests, scenario_ticks,
                   lobby_dispatch, dwell, serial_before, serial_after, stopped>>

\* POST /system/emergency
trigger_emergency ==
    /\ engine = "elevator_system"
    /\ elevators' = emergency_stop(elevators)
    /\ Serialise(emergency_stop)
    /\ stopped' = TRUE
    /\ last_call' = [op |-> "trigger_emergency"]
    /\ ret' = "200"
    /\ status' = <<>>
    /\ lobby_dispatch' = StillDispatched(elevators')
    /\ UNCHANGED <<engine, sys_vars, requests, scenario_ticks, dwell, tick,
                   status_cache, cache_targets>>

\* POST /system/resume
Api_resume_service ==
    /\ engine = "elevator_system"
    /\ elevators' = resume_service(elevators).elevators
    /\ Serialise(LAMBDA els : resume_service(els).elevators)
    /\ stopped' = FALSE
    /\ last_call' = [op |-> "resume_service"]
    /\ ret' = IF resume_service(elevators).ret THEN "200" ELSE "500"
    /\ status' = <<>>
    /\ lobby_dispatch' = StillDispatched(elevators')
    /\ UNCHANGED <<engine, sys_vars, requests, scenario_ticks, dwell, tick,
                   status_cache, cache_targets>>

\* POST /elevator/{elevator_id}/request
AddElevatorRequest ==
    /\ engine = "elevator_system"
    /\ requests < MaxServiceRequests
    /\ \E elevator_id \in ServiceElevatorIds, target_floor \in ServiceFloors :
          /\ elevators' =
                add_elevator_request(elevators, elevator_id, target_floor).elevators
          /\ ret' = add_elevator_request(elevators, elevator_id, target_floor).ret
          /\ Serialise(LAMBDA els :
                add_elevator_request(els, elevator_id, target_floor).elevators)
          /\ last_call' = [op |-> "add_elevator_request",
                           elevator_id |-> elevator_id, floor |-> target_floor]
    /\ requests' = requests + 1
    /\ status' = <<>>
    /\ lobby_dispatch' = lobby_dispatch
    /\ UNCHANGED <<engine, sys_vars, scenario_ticks, dwell, tick, status_cache,
                   cache_targets, stopped>>

\* POST /floor/{floor_number}/request
AddFloorRequest ==
    /\ engine = "elevator_system"
    /\ requests < MaxServiceRequests
    /\ \E floor_number \in ServiceFloors, direction \in RequestDirections :
          /\ elevators' = add_floor_request(elevators, floor_number, direction).elevators
          /\ ret' = add_floor_request(elevators, floor_number, direction).ret
          /\ Serialise(LAMBDA els :
                add_floor_request(els, floor_number, direction).elevators)
          /\ last_call' = [op |-> "add_floor_request",
                           floor |-> floor_number, direction |-> direction]
          /\ lobby_dispatch' =
                lobby_dispatch \cup GainedLobby(elevators, elevators')
    /\ requests' = requests + 1
    /\ status' = <<>>
    /\ UNCHANGED <<engine, sys_vars, scenario_ticks, dwell, tick, status_cache,
                   cache_targets, stopped>>

\* GET /system/status: the cache if there is one, whose target_floors entries
\* are the elevators' own lists and are read when the response is built
get_system_status ==
    /\ engine = "elevator_system"
    /\ status' =
          IF status_cache # <<>>
          THEN [i \in DOMAIN status_cache |->
                   [status_cache[i] EXCEPT !.target_floors = elevators[i].targets]]
          ELSE [i \in DOMAIN elevators |->
                   ElevatorStatus(elevators[i], elevators[i].targets)]
    /\ last_call' = [op |-> "get_system_status"]
    /\ ret' = "200"
    /\ UNCHANGED <<engine, elevators, sys_vars, requests, scenario_ticks,
                   lobby_dispatch, dwell, tick, status_cache, cache_targets,
                   serial_before, serial_after, stopped>>

\* GET /elevator/{elevator_id}/status
get_elevator_status ==
    /\ engine = "elevator_system"
    /\ \E elevator_id \in ServiceElevatorIds :
          /\ status' =
                IF elevator_id < 1 \/ elevator_id > Len(elevators) THEN <<>>
                ELSE <<ElevatorStatus(elevators[elevator_id],
                                      elevators[elevator_id].targets)>>
          /\ ret' = IF elevator_id < 1 \/ elevator_id > Len(elevators)
                    THEN "404" ELSE "200"
          /\ last_call' = [op |-> "get_elevator_status",
                           elevator_id |-> elevator_id]
    /\ UNCHANGED <<engine, elevators, sys_vars, requests, scenario_ticks,
                   lobby_dispatch, dwell, tick, status_cache, cache_targets,
                   serial_before, serial_after, stopped>>

\* the thread and the handlers that change the elevators
ServiceNext ==
    \/ TickBegin
    \/ TickStatement
    \/ TickCache
    \/ trigger_emergency
    \/ Api_resume_service
    \/ AddElevatorRequest
    \/ AddFloorRequest

SpecService == Init /\ [][ServiceNext]_vars

\* the thread, the handlers that change the elevators and those that read
\* them
StatusNext ==
    \/ TickBegin
    \/ TickStatement
    \/ TickCache
    \/ trigger_emergency
    \/ Api_resume_service
    \/ AddElevatorRequest
    \/ AddFloorRequest
    \/ get_system_status
    \/ get_elevator_status

SpecStatus == Init /\ [][StatusNext]_vars

\* ----------------------------------------------------------------- claims

\* C1: after ElevatorSystem.emergency_stop (elevator_system.py), whatever the
\* state it was called in, the call has returned True and every elevator is
\* in EMERGENCY with direction idle and no targets.
C1_EmergencyStopAll ==
    (engine = "elevator_system" /\ last_call.op = "emergency_stop") =>
        /\ ret = "True"
        /\ \A i \in DOMAIN elevators :
              /\ elevators[i].state = "emergency"
              /\ elevators[i].direction = "idle"
              /\ elevators[i].targets = <<>>

\* C1 witness: emergency_stop has just returned and found a car away from
\* the lobby, i.e. one that requests and ticks had set in motion.
C1_Witness ==
    /\ last_call.op = "emergency_stop"
    /\ \E i \in DOMAIN elevators : elevators[i].current_floor > 1

\* C2: in every reachable state an elevator in EMERGENCY has direction idle
\* and no targets.
C2_EmergencyHoldsNothing ==
    \A i \in DOMAIN elevators :
        elevators[i].state = "emergency" =>
            elevators[i].direction = "idle" /\ elevators[i].targets = <<>>

\* C2 witness: a request for a floor of the building has just been made on a
\* system whose elevator 3 is in EMERGENCY away from the lobby.
C2_Witness ==
    /\ last_call.op \in {"add_internal_request", "add_external_request"}
    /\ last_call.floor \in 1..num_floors
    /\ elevators[3].state = "emergency"
    /\ elevators[3].current_floor > 1

\* C3: an internal request addressed to an elevator in EMERGENCY returns
\* False and changes nothing; an external request leaves every elevator in
\* EMERGENCY as it was; and when all elevators are in EMERGENCY an external
\* request (the lobby included) returns False and changes nothing.
C3_EmergencyRejectsRequests ==
    [][/\ (/\ last_call'.op = "add_internal_request"
           /\ last_call'.elevator_id \in DOMAIN elevators
           /\ elevators[last_call'.elevator_id].state = "emergency")
          => (ret' = "False" /\ elevators' = elevators)
       /\ last_call'.op = "add_external_request"
          => /\ \A i \in DOMAIN elevators :
                   elevators[i].state = "emergency" => elevators'[i] = elevators[i]
             /\ (\A i \in DOMAIN elevators : elevators[i].state = "emergency")
                   => (ret' = "False" /\ elevators' = elevators)]_vars

\* C3 witness: a lobby call has just been refused with every elevator in
\* EMERGENCY.
C3_Witness ==
    /\ last_call.op = "add_external_request"
    /\ last_call.floor = 1
    /\ last_call.direction = "up"
    /\ ret = "False"
    /\ \A i \in DOMAIN elevators : elevators[i].state = "emergency"

\* C4: a tick leaves the floor, state, direction and targets of an elevator
\* in EMERGENCY unchanged, and an elevator leaves EMERGENCY only by
\* resume_service, which puts it in IDLE (both engines).
C4_EmergencyAbsorbing ==
    [][/\ \A i \in DOMAIN elevators :
             elevators[i].state = "emergency" =>
                /\ last_call'.op = "update" =>
                      /\ elevators'[i].current_floor = elevators[i].current_floor
                      /\ elevators'[i].state = elevators[i].state
                      /\ elevators'[i].direction = elevators[i].direction
                      /\ elevators'[i].targets = elevators[i].targets
                /\ elevators'[i].state # "emergency" =>
                      /\ last_call'.op = "resume_service"
                      /\ elevators'[i].state = "idle"
       /\ \A i \in DOMAIN sys_elevators :
             sys_elevators[i].state = "emergency" =>
                /\ last_call'.op = "step" =>
                      /\ sys_elevators'[i].current_floor = sys_elevators[i].current_floor
                      /\ sys_elevators'[i].state = sys_elevators[i].state
                      /\ sys_elevators'[i].direction = sys_elevators[i].direction
                      /\ sys_elevators'[i].target_floors = sys_elevators[i].target_floors
                /\ sys_elevators'[i].state # "emergency" =>
                      /\ last_call'.op = "resume_service"
                      /\ last_call'.elevator_id = i
                      /\ sys_elevators'[i].state = "idle"]_vars

\* C4 witness: a tick has just run over an elevator that is in EMERGENCY
\* away from the lobby.
C4_Witness ==
    /\ last_call.op = "update"
    /\ \E i \in DOMAIN elevators :
          elevators[i].state = "emergency" /\ elevators[i].current_floor > 1

\* C5: in elevator_system.ElevatorSystem every elevator's current_floor stays
\* within 1..num_floors.
C5_FloorInRange ==
    \A i \in DOMAIN elevators :
        1 <= elevators[i].current_floor /\ elevators[i].current_floor <= 50

\* C5 witness: a car has travelled to the top floor, served it and come to
\* rest there.
C5_Witness ==
    \E i \in DOMAIN elevators :
        /\ elevators[i].current_floor = 50
        /\ elevators[i].state = "idle"
        /\ elevators[i].targets = <<>>

\* C6: in system.ElevatorSystem every elevator's current_floor stays within
\* 1..num_floors, also after a request for the floor an idle car stands on.
C6_SysFloorInRange ==
    \A i \in DOMAIN sys_elevators :
        1 <= sys_elevators[i].current_floor
        /\ sys_elevators[i].current_floor <= 50

\* C7 as amended: on a fresh system add_internal_request(1, 5) succeeds;
\* after the 1st tick elevator 1 is MOVING up at floor 1; it is at floor 5
\* after the 5th tick, DOOR_OPENING after the 6th, and it is IDLE with no
\* targets after exactly 1 + 4 + 1 + 2 + 3 + 2 = 13 ticks and not before.
C7_ScenarioThirteenTicks ==
    /\ scenario_ticks = 0 => (ret = "True" /\ elevators[1].targets = <<5>>)
    /\ scenario_ticks = 1 =>
          /\ elevators[1].state = "moving"
          /\ elevators[1].direction = "up"
          /\ elevators[1].current_floor = 1
    /\ scenario_ticks \in 1..4 => elevators[1].current_floor = scenario_ticks
    /\ scenario_ticks >= 5 => elevators[1].current_floor = 5
    /\ scenario_ticks \in 1..5 => elevators[1].state = "moving"
    /\ scenario_ticks \in 6..7 => elevators[1].state = "door_opening"
    /\ scenario_ticks \in 8..10 => elevators[1].state = "door_open"
    /\ scenario_ticks \in 11..12 => elevators[1].state = "door_closing"
    /\ scenario_ticks \in 0..12 =>
          ~(elevators[1].state = "idle" /\ elevators[1].targets = <<>>)
    /\ scenario_ticks >= 13 =>
          (elevators[1].state = "idle" /\ elevators[1].targets = <<>>)

\* C7 witness: the 13th tick of the scenario has run.
C7_Witness == scenario_ticks = 13 /\ elevators[1].state = "idle"

\* C7 as stated: elevator 1 is IDLE with no targets after exactly
\* 1 + 4 + 2 + 3 + 2 = 12 ticks and not before.
C7_ScenarioTwelveTicks ==
    /\ scenario_ticks = 0 => (ret = "True" /\ elevators[1].targets = <<5>>)
    /\ scenario_ticks = 1 =>
          /\ elevators[1].state = "moving"
          /\ elevators[1].direction = "up"
          /\ elevators[1].current_floor = 1
    /\ scenario_ticks \in 0..11 =>
          ~(elevators[1].state = "idle" /\ elevators[1].targets = <<>>)
    /\ scenario_ticks = 12 =>
          (elevators[1].state = "idle" /\ elevators[1].targets = <<>>)

\* C8: in both engines every pending target of an elevator is floor 1 or a
\* floor of its zone (elevators 1-2: 1..20, 3-4: 21..35, 5-6: 36..50), so
\* floor 25 is pending in elevators 3 and 4 only.
C8_TargetsInZone ==
    /\ \A i \in DOMAIN elevators :
          \A k \in 1..Len(elevators[i].targets) :
             LET f == elevators[i].targets[k]
             IN  /\ \/ f = 1
                     \/ (i \in {1, 2} /\ f \in 1..20)
                     \/ (i \in {3, 4} /\ f \in 21..35)
                     \/ (i \in {5, 6} /\ f \in 36..50)
                 /\ f = 25 => i \in {3, 4}
    /\ \A i \in DOMAIN sys_elevators :
          \A k \in 1..Len(sys_elevators[i].target_floors) :
             LET f == sys_elevators[i].target_floors[k].floor
             IN  /\ \/ f = 1
                     \/ (i \in {1, 2} /\ f \in 1..20)
                     \/ (i \in {3, 4} /\ f \in 21..35)
                     \/ (i \in {5, 6} /\ f \in 36..50)
                 /\ f = 25 => i \in {3, 4}

\* C8 witness: two external requests for floor 25, the second one downwards,
\* have both been assigned, to two different elevators.
C8_Witness ==
    /\ last_call.op = "add_external_request"
    /\ last_call.floor = 25
    /\ last_call.direction = "down"
    /\ ret = "True"
    /\ \/ \E i, j \in DOMAIN elevators :
             /\ i # j
             /\ Contains(elevators[i].targets, 25)
             /\ Contains(elevators[j].targets, 25)
       \/ \E i, j \in DOMAIN sys_elevators :
             /\ i # j
             /\ HasKey(sys_elevators[i].target_floors, 25)
             /\ HasKey(sys_elevators[j].target_floors, 25)

\* C9: an internal request for a floor that is neither the lobby nor in the
\* addressed elevator's zone returns False and changes no elevator, in
\* whatever state the elevator is (both engines).
C9_OutOfZoneInternalRejected ==
    [][(/\ last_call'.op = "add_internal_request"
        /\ last_call'.elevator_id \in 1..6
        /\ last_call'.floor # 1
        /\ \/ (last_call'.elevator_id \in {1, 2} /\ last_call'.floor \notin 1..20)
           \/ (last_call'.elevator_id \in {3, 4} /\ last_call'.floor \notin 21..35)
           \/ (last_call'.elevator_id \in {5, 6} /\ last_call'.floor \notin 36..50))
       => /\ ret' = "False"
          /\ elevators' = elevators
          /\ sys_elevators' = sys_elevators]_vars

\* C9 witness: add_internal_request(1, 40) has just been refused by
\* elevator 1 while it was moving with a target pending.
C9_Witness ==
    /\ engine = "elevator_system"
    /\ last_call.op = "add_internal_request"
    /\ last_call.elevator_id = 1
    /\ last_call.floor = 40
    /\ ret = "False"
    /\ elevators[1].state = "moving"
    /\ elevators[1].targets = <<5>>

\* C10: add_external_request(num_floors, up) and add_external_request(1,
\* down) return False and change no elevator, in every reachable state.
C10_BoundaryDirectionRejected ==
    [][(/\ last_call'.op = "add_external_request"
        /\ \/ (last_call'.floor = 50 /\ last_call'.direction = "up")
           \/ (last_call'.floor = 1 /\ last_call'.direction = "down"))
       => (ret' = "False" /\ elevators' = elevators)]_vars

\* C10 witness: a down call from the lobby has just been refused while an
\* elevator stood idle at the lobby and another was on its way.
C10_Witness ==
    /\ last_call.op = "add_external_request"
    /\ last_call.floor = 1
    /\ last_call.direction = "down"
    /\ ret = "False"
    /\ \E i \in DOMAIN elevators :
          elevators[i].state = "idle" /\ elevators[i].current_floor = 1
    /\ \E i \in DOMAIN elevators : elevators[i].state = "moving"

\* C11: a request for a floor outside 1..num_floors, and an internal request
\* addressed to an elevator id outside 1..6, return False (the call returns,
\* nothing is raised) and change no elevator, in both engines.
C11_OutOfRangeRejected ==
    [][(\/ /\ last_call'.op \in {"add_internal_request", "add_external_request"}
           /\ last_call'.floor \notin 1..num_floors
        \/ /\ last_call'.op = "add_internal_request"
           /\ last_call'.elevator_id \notin 1..num_elevators)
       => /\ ret' = "False"
          /\ elevators' = elevators
          /\ sys_elevators' = sys_elevators
          /\ request_queue' = request_queue]_vars

\* C11 witness: add_internal_request(0, 40) has just been refused while a
\* car was moving.
C11_Witness ==
    /\ last_call.op = "add_internal_request"
    /\ last_call.elevator_id = 0
    /\ last_call.floor = 40
    /\ ret = "False"
    /\ \/ \E i \in DOMAIN elevators : elevators[i].state = "moving"
       \/ \E i \in DOMAIN sys_elevators : sys_elevators[i].state = "moving"

\* C12: whenever add_external_request or add_internal_request of
\* elevator_system.ElevatorSystem returns False, for whatever reason, every
\* elevator is exactly as it was before the call.
C12_RejectedRequestChangesNothing ==
    [][(/\ engine = "elevator_system"
        /\ last_call'.op \in {"add_internal_request", "add_external_request"}
        /\ ret' = "False")
       => elevators' = elevators]_vars

\* C12 witness: an external request for floor 5 has just been refused because
\* the elevator chosen for it, elevator 1 on its way up, already had floor 5
\* as its target.
C12_Witness ==
    /\ engine = "elevator_system"
    /\ last_call.op = "add_external_request"
    /\ last_call.floor = 5
    /\ ret = "False"
    /\ elevators[1].state = "moving"
    /\ elevators[1].targets = <<5>>
    /\ \A i \in 2..6 : elevators[i].state = "idle" /\ elevators[i].targets = <<>>

\* the floors pending in a list of targets / in a target_floors dict
TargetSet(targets) == {targets[k] : k \in 1..Len(targets)}

KeySet(d) == {d[k].floor : k \in 1..Len(d)}

\* what an accepted request leaves alone (both engines): every elevator's
\* floor, state, direction and door timer, and the targets of every elevator
\* but at most one, which gains the requested floor
AcceptedRequestFrame ==
    /\ \A i \in DOMAIN elevators :
          /\ elevators'[i].current_floor = elevators[i].current_floor
          /\ elevators'[i].state = elevators[i].state
          /\ elevators'[i].direction = elevators[i].direction
          /\ elevators'[i].door_timer = elevators[i].door_timer
          /\ elevators'[i].targets # elevators[i].targets =>
                /\ last_call'.floor \notin TargetSet(elevators[i].targets)
                /\ TargetSet(elevators'[i].targets) =
                      TargetSet(elevators[i].targets) \cup {last_call'.floor}
    /\ \A i \in DOMAIN sys_elevators :
          /\ sys_elevators'[i].current_floor = sys_elevators[i].current_floor
          /\ sys_elevators'[i].state = sys_elevators[i].state
          /\ sys_elevators'[i].direction = sys_elevators[i].direction
          /\ sys_elevators'[i].target_floors # sys_elevators[i].target_floors =>
                KeySet(sys_elevators'[i].target_floors) =
                   KeySet(sys_elevators[i].target_floors) \cup {last_call'.floor}

\* the elevators whose targets the step has changed
TargetsChanged ==
    {i \in DOMAIN elevators : elevators'[i].targets # elevators[i].targets}
    \cup {i \in DOMAIN sys_elevators :
             sys_elevators'[i].target_floors # sys_elevators[i].target_floors}

AcceptedRequest ==
    /\ last_call'.op \in {"add_internal_request", "add_external_request"}
    /\ ret' = "True"

\* C13 as amended: an accepted request (both engines) leaves the floor, state
\* and direction of every elevator unchanged and changes the targets of at
\* most one elevator, which gains the requested floor; it changes no
\* elevator at all only when the floor was already pending in some elevator.
C13_AcceptedRequestAtMostOne ==
    [][AcceptedRequest =>
          /\ AcceptedRequestFrame
          /\ Cardinality(TargetsChanged) <= 1
          /\ TargetsChanged = {} =>
                \/ \E i \in DOMAIN elevators :
                      engine = "elevator_system"
                      /\ last_call'.floor \in TargetSet(elevators[i].targets)
                \/ \E i \in DOMAIN sys_elevators :
                      engine = "system"
                      /\ last_call'.floor \in KeySet(sys_elevators[i].target_floors)]_vars

\* C13 witness: system.ElevatorSystem has accepted add_internal_request(1, 5)
\* twice before any step; elevator 1 still stands idle at floor 1 and holds
\* the one target the first call gave it.
C13_Witness ==
    /\ engine = "system"
    /\ last_call.op = "add_internal_request"
    /\ last_call.elevator_id = 1
    /\ last_call.floor = 5
    /\ ret = "True"
    /\ \E r \in BagToSet(request_queue) : CopiesIn(r, request_queue) = 2
    /\ sys_elevators[1].state = "idle"
    /\ sys_elevators[1].direction = "idle"
    /\ sys_elevators[1].current_floor = 1
    /\ KeySet(sys_elevators[1].target_floors) = {5}

\* C13 as stated: an accepted request changes the targets of exactly one
\* elevator and nothing else.
C13_AcceptedRequestExactlyOne ==
    [][AcceptedRequest =>
          /\ AcceptedRequestFrame
          /\ Cardinality(TargetsChanged) = 1]_vars

\* C14 as stated: in every reachable state of elevator_system.ElevatorSystem
\* an elevator whose direction is idle has no pending targets.
C14_IdleDirectionNoTargets ==
    \A i \in DOMAIN elevators :
        elevators[i].direction = "idle" => elevators[i].targets = <<>>

\* C14 as amended: in elevator_system.ElevatorSystem an elevator whose
\* direction is idle has pending targets only while it is in state IDLE, with
\* a request accepted since the last tick; right after a tick an elevator
\* whose direction is idle has no pending targets.
C14_IdleDirectionAfterTick ==
    \A i \in DOMAIN elevators :
        (elevators[i].direction = "idle" /\ elevators[i].targets # <<>>) =>
            (elevators[i].state = "idle" /\ last_call.op # "update")

\* C14 witness: a tick has just set elevator 1 in motion towards the target
\* it had accepted while idle, and elevator 3 has come to rest at floor 25.
C14_Witness ==
    /\ engine = "elevator_system"
    /\ last_call.op = "update"
    /\ elevators[1].state = "moving"
    /\ elevators[1].current_floor = 1
    /\ elevators[1].direction = "up"
    /\ elevators[3].current_floor = 25
    /\ elevators[3].state = "idle"
    /\ elevators[3].direction = "idle"

\* C15: an external request for floor 1, direction up, made while an elevator
\* is IDLE at floor 1 returns True, and after the call floor 1 is among the
\* targets of the first such elevator; a second lobby call made before any
\* tick included.
C15_LobbyCallAssigned ==
    [][(/\ engine = "elevator_system"
        /\ last_call'.op = "add_external_request"
        /\ last_call'.floor = 1
        /\ last_call'.direction = "up"
        /\ LobbyElevators(elevators) # {})
       => /\ ret' = "True"
          /\ Contains(elevators'[Min(LobbyElevators(elevators))].targets, 1)]_vars

\* an external request for floor 1 made while no elevator is IDLE at floor 1
\* and some elevator has floor 1 among its targets
LobbyCallAlreadyServed ==
    /\ engine = "elevator_system"
    /\ last_call'.op = "add_external_request"
    /\ last_call'.floor = 1
    /\ last_call'.direction = "up"
    /\ LobbyElevators(elevators) = {}
    /\ ComingToLobby(elevators) # {}

SpecScore(e, floor, direction) ==
    LET base == Abs(e.current_floor - floor) * 2 + Len(e.targets) * 5
    IN  IF floor = 1
        THEN IF e.current_floor = 1 /\ e.state = "idle" THEN 0
             ELSE IF e.current_floor = 1 /\ e.state # "moving" THEN 5
             ELSE IF e.current_floor # 1 /\ Contains(e.targets, 1)
                  THEN base + 10
             ELSE base
        ELSE base
             - (IF \/ (direction = "up" /\ e.direction = "up"
                       /\ e.current_floor < floor)
                   \/ (direction = "down" /\ e.direction = "down"
                       /\ e.current_floor > floor)
                THEN 10 ELSE 0)
             - (IF e.state = "idle" THEN 5 ELSE 0)
             - (IF \E k \in 1..Len(e.targets) : Abs(e.targets[k] - floor) <= 5
                THEN 3 ELSE 0)

\* the elevators of the specification's eligibility rule: the zone covers
\* the floor or the floor is the lobby, and the state is not EMERGENCY
SpecEligible(floor) ==
    {i \in DOMAIN elevators :
        /\ \/ floor = 1
           \/ (i \in {1, 2} /\ floor \in 1..20)
           \/ (i \in {3, 4} /\ floor \in 21..35)
           \/ (i \in {5, 6} /\ floor \in 36..50)
        /\ elevators[i].state # "emergency"}

\* C17: for the floor and direction of every add_external_request call, in
\* the state the call is made in, find_elevator_for_floor returns None
\* exactly when the floor is out of range or no elevator is eligible,
\* and otherwise the eligible elevator of least score, the one of lowest id
\* among those of least score.
C17_FindElevatorIsArgMin ==
    [][(/\ engine = "elevator_system"
        /\ last_call'.op = "add_external_request")
       => LET floor == last_call'.floor
              direction == last_call'.direction
              r == find_elevator_for_floor(elevators, floor, direction)
              eligible == SpecEligible(floor)
              sr == SpecScore(elevators[r], floor, direction)
          IN  /\ r = 0 <=> (floor \notin 1..num_floors \/ eligible = {})
              /\ r # 0 =>
                    /\ r \in eligible
                    /\ \A j \in eligible :
                          LET sj == SpecScore(elevators[j], floor, direction)
                          IN  sr < sj \/ (sr = sj /\ r <= j)]_vars

\* C17 witness: an up call from floor 5 has just been given to elevator 2,
\* whose score was lower than that of elevator 1, which had floor 5 pending
\* already, before either of them has moved.
C17_Witness ==
    /\ engine = "elevator_system"
    /\ last_call.op = "add_external_request"
    /\ last_call.floor = 5
    /\ last_call.direction = "up"
    /\ ret = "True"
    /\ elevators[2].targets = <<5>>
    /\ elevators[1].targets = <<5>>
    /\ elevators[2].state = "idle"
    /\ elevators[1].state = "idle"

\* C18: for every elevator and every floor of 1..num_floors, in both
\* engines, can_serve_floor is true iff the floor is 1 or lies in the
\* elevator's zone: 1..20 for elevators 1 and 2, 21..35 for elevators 3 and
\* 4, 36..50 for elevators 5 and 6.
C18_CanServeFloorIffZoneOrLobby ==
    last_call.op = "can_serve_floor" =>
        (ret = "True" <=>
            \/ last_call.floor = 1
            \/ last_call.elevator_id \in {1, 2} /\ last_call.floor \in 1..20
            \/ last_call.elevator_id \in {3, 4} /\ last_call.floor \in 21..35
            \/ last_call.elevator_id \in {5, 6} /\ last_call.floor \in 36..50)

\* C18 witness: a high-rise elevator of elevator_system.ElevatorSystem has
\* been asked about the lobby and has answered True.
C18_Witness ==
    /\ engine = "elevator_system"
    /\ last_call.op = "can_serve_floor"
    /\ last_call.elevator_id = 5
    /\ last_call.floor = 1
    /\ ret = "True"

\* C19: ElevatorSystem.resume_service puts every elevator that is in
\* EMERGENCY in IDLE, whatever the state of the others, leaves every other
\* elevator exactly as it was, and returns True iff every elevator was in
\* EMERGENCY when it was called.
C19_ResumeService ==
    [][(engine = "elevator_system" /\ last_call'.op = "resume_service") =>
          /\ \A i \in DOMAIN elevators :
                elevators'[i] = IF elevators[i].state = "emergency"
                                THEN [elevators[i] EXCEPT !.state = "idle"]
                                ELSE elevators[i]
          /\ ret' = "True" <=>
                \A i \in DOMAIN elevators : elevators[i].state = "emergency"]_vars

\* C19 witness: resume_service has just returned False; elevator 2, which
\* had been stopped between the lobby and its target, is IDLE at that floor
\* and elevator 1, which was not in EMERGENCY, is still moving.
C19_Witness ==
    /\ engine = "elevator_system"
    /\ last_call.op = "resume_service"
    /\ ret = "False"
    /\ elevators[2].state = "idle"
    /\ elevators[2].current_floor \in 2..4
    /\ elevators[1].state = "moving"
    /\ elevators[1].targets # <<>>

\* C20: resume_service leaves every elevator that was in EMERGENCY in IDLE
\* with direction idle and no targets, and a second call right after the
\* first returns (it reports that nothing was left to resume) and leaves
\* every elevator exactly as the first call left it.
C20_ResumeIdempotent ==
    [][(engine = "elevator_system" /\ last_call'.op = "resume_service") =>
          /\ \A i \in DOMAIN elevators :
                elevators[i].state = "emergency" =>
                   /\ elevators'[i].state = "idle"
                   /\ elevators'[i].direction = "idle"
                   /\ elevators'[i].targets = <<>>
          /\ last_call.op = "resume_service" =>
                (elevators' = elevators /\ ret' = "False")]_vars

\* C20 witness: resume_service has been called again on a system it had
\* resumed before: elevator 1 stands IDLE, without targets, between the
\* lobby and the floor it was travelling to when it was stopped.
C20_Witness ==
    /\ engine = "elevator_system"
    /\ last_call.op = "resume_service"
    /\ ret = "False"
    /\ elevators[1].current_floor \in 2..4
    /\ \A i \in DOMAIN elevators :
          /\ elevators[i].state = "idle"
          /\ elevators[i].direction = "idle"
          /\ elevators[i].targets = <<>>

\* C21: in the running service every tick of update_system ends with the
\* elevators as some serial order of the tick and the handler calls made
\* while it ran leaves them (the tick as a whole before, between or after
\* those calls), and once trigger_emergency has returned every elevator is
\* in EMERGENCY until resume_service is called, whatever tick was in
\* progress.
C21_TicksAndOperationsSerial ==
    [][/\ (InTick /\ tick'.pc = "api52") =>
             elevators' \in serial_after \cup {update(serial_before)}
       /\ stopped' =>
             \A i \in DOMAIN elevators : elevators'[i].state = "emergency"]_vars

\* the states of the elevators between two complete operations that a
\* handler running now can have in front of it: the elevators as they are
\* when no tick is in progress, and otherwise as the serial orders of that
\* tick and the handler calls made since it began leave them
Instants ==
    IF InTick
    THEN {serial_before, update(serial_before)} \cup serial_after
    ELSE {elevators}

\* C22: every status returned by get_system_status and get_elevator_status
\* is the state of the elevators at one instant between two complete
\* operations: the floor, state, direction and targets it gives for each
\* elevator are those the elevators had when the cache was built, if the
\* status is served from the cache, or those they have at one such instant
\* of the present, never those a tick in progress has half changed.
C22_StatusIsSnapshot ==
    [][(last_call'.op \in {"get_system_status", "get_elevator_status"}
        /\ ret' = "200")
       => \/ /\ last_call'.op = "get_system_status"
             /\ status_cache # <<>>
             /\ status' = [i \in DOMAIN status_cache |->
                              [status_cache[i] EXCEPT
                                  !.target_floors = cache_targets[i]]]
          \/ \E x \in Instants :
                \A k \in DOMAIN status' :
                   status'[k] = ElevatorStatus(x[status'[k].id],
                                               x[status'[k].id].targets)]_vars

\* a list of floors in ascending / in descending order
Ascending(s) == \A k \in 1..(Len(s) - 1) : s[k] < s[k + 1]

Descending(s) == \A k \in 1..(Len(s) - 1) : s[k] > s[k + 1]

\* C23: in every reachable state of elevator_system.ElevatorSystem the
\* target list of each elevator is sorted per its current direction:
\* ascending when the direction is idle or up, descending when it is down.
C23_TargetsSortedPerDirection ==
    \A i \in DOMAIN elevators :
        IF elevators[i].direction = "down"
        THEN Descending(elevators[i].targets)
        ELSE Ascending(elevators[i].targets)

\* C24: in system.ElevatorSystem an elevator in EMERGENCY has no targets:
\* none is inserted into it between Elevator.emergency_stop and
\* resume_service, by add_internal_request or by add_external_request.
C24_SysEmergencyHoldsNoTargets ==
    \A i \in DOMAIN sys_elevators :
        sys_elevators[i].state = "emergency" =>
            sys_elevators[i].target_floors = <<>>

\* C25: in system.ElevatorSystem a step on an IDLE elevator that has targets
\* only makes it MOVING, with direction up if its targets are above its
\* floor and down if they are below, and leaves its floor as it is; a step
\* on a MOVING elevator changes its floor by exactly one in its direction,
\* and leaves it in DOOR_OPENING if the floor reached is a target and
\* MOVING otherwise.
C25_SysStepMoves ==
    [][(engine = "system" /\ last_call'.op = "step") =>
          \A i \in DOMAIN sys_elevators :
             LET e == sys_elevators[i]
                 after == sys_elevators'[i]
             IN  /\ (e.state = "idle" /\ e.target_floors # <<>>) =>
                       /\ after = [e EXCEPT !.state = "moving",
                                            !.direction = after.direction]
                       /\ after.direction \in {"up", "down"}
                       /\ (\A f \in KeySet(e.target_floors) : f > e.current_floor)
                             => after.direction = "up"
                       /\ (\A f \in KeySet(e.target_floors) : f < e.current_floor)
                             => after.direction = "down"
                 /\ e.state = "moving" =>
                       /\ after.direction = e.direction
                       /\ after.target_floors = e.target_floors
                       /\ e.direction = "up" =>
                             after.current_floor = e.current_floor + 1
                       /\ e.direction = "down" =>
                             after.current_floor = e.current_floor - 1
                       /\ e.direction \in {"up", "down"}
                       /\ after.state =
                             IF after.current_floor \in KeySet(e.target_floors)
                             THEN "door_opening" ELSE "moving"]_vars

\* C25 witness: the request of test_elevator_movement: the step that brought
\* elevator 1 from floor 4 to its target, floor 5, has left it in
\* DOOR_OPENING there.
C25_Witness ==
    /\ engine = "system"
    /\ last_call.op = "step"
    /\ sys_elevators[1].current_floor = 5
    /\ sys_elevators[1].state = "door_opening"
    /\ sys_elevators[1].direction = "up"
    /\ KeySet(sys_elevators[1].target_floors) = {5}

\* C26: whatever values have been assigned to Elevator.current_weight, the
\* weight stored in every elevator is at most max_weight (2200), and the
\* assignment made last has stored its value if that is at most 2200 and
\* 2200 otherwise.
C26_WeightCapped ==
    /\ \A i \in DOMAIN sys_elevators : sys_elevators[i].current_weight <= 2200
    /\ last_call.op = "current_weight" =>
          sys_elevators[last_call.elevator_id].current_weight =
             IF last_call.value <= 2200 THEN last_call.value ELSE 2200

\* C26 witness: the assignments of test_elevator_weight_management: 900 has
\* been stored as it is in one elevator and 2500 has just been assigned to
\* another, which holds 2200.
C26_Witness ==
    /\ last_call.op = "current_weight"
    /\ last_call.elevator_id = 1
    /\ last_call.value = 2500
    /\ sys_elevators[1].current_weight = 2200
    /\ sys_elevators[2].current_weight = 900

\* C27: a tick changes a door state exactly when its dwell is over:
\* DOOR_OPENING becomes DOOR_OPEN on the 2nd tick after it was entered (one
\* tick spent there before), DOOR_OPEN becomes DOOR_CLOSING on the 3rd and
\* DOOR_CLOSING becomes IDLE on the 2nd, and on every earlier tick the state
\* stays; a request made during the door cycle changes no elevator's state
\* and no count of ticks spent.
C27_DoorDwell ==
    [][/\ (engine = "elevator_system" /\ last_call'.op = "update") =>
             \A i \in DOMAIN elevators :
                /\ elevators[i].state = "door_opening" =>
                      elevators'[i].state =
                         IF dwell[i] = DOOR_OPENING_TICKS - 1
                         THEN "door_open" ELSE "door_opening"
                /\ elevators[i].state = "door_open" =>
                      elevators'[i].state =
                         IF dwell[i] = DOOR_OPEN_TICKS - 1
                         THEN "door_closing" ELSE "door_open"
                /\ elevators[i].state = "door_closing" =>
                      elevators'[i].state =
                         IF dwell[i] = DOOR_CLOSING_TICKS - 1
                         THEN "idle" ELSE "door_closing"
       /\ (/\ engine = "elevator_system"
           /\ last_call'.op \in {"add_internal_request", "add_external_request"})
          => /\ dwell' = dwell
             /\ \A i \in DOMAIN elevators :
                   elevators'[i].state = elevators[i].state]_vars

\* C27 witness: a request for the lobby has just been accepted by elevator
\* 1 while it stood at floor 5 with its doors open, two ticks of the three
\* spent.
C27_Witness ==
    /\ engine = "elevator_system"
    /\ last_call.op = "add_internal_request"
    /\ ret = "True"
    /\ elevators[1].state = "door_open"
    /\ elevators[1].current_floor = 5
    /\ elevators[1].targets = <<1, 5>>
    /\ dwell[1] = 2

\* C28: a tick on a MOVING elevator of elevator_system.ElevatorSystem does
\* exactly one of two things: if the floor it is at is among its targets it
\* becomes DOOR_OPENING and stays at that floor; otherwise it stays MOVING
\* and its floor changes by exactly one, upwards if its direction is up and
\* downwards if it is down.
C28_MovingTick ==
    [][(engine = "elevator_system" /\ last_call'.op = "update") =>
          \A i \in DOMAIN elevators :
             elevators[i].state = "moving" =>
                IF elevators[i].current_floor \in TargetSet(elevators[i].targets)
                THEN /\ elevators'[i].state = "door_opening"
                     /\ elevators'[i].current_floor = elevators[i].current_floor
                ELSE /\ elevators'[i].state = "moving"
                     /\ elevators[i].direction \in {"up", "down"}
                     /\ elevators'[i].current_floor =
                           IF elevators[i].direction = "up"
                           THEN elevators[i].current_floor + 1
                           ELSE elevators[i].current_floor - 1]_vars

\* C28 witness: one tick has taken elevator 1 from floor 2 to floor 3 on its
\* way up to floor 5 and has made elevator 3 open its doors at floor 25,
\* where it had arrived the tick before.
C28_Witness ==
    /\ engine = "elevator_system"
    /\ last_call.op = "update"
    /\ elevators[1].state = "moving"
    /\ elevators[1].direction = "up"
    /\ elevators[1].current_floor = 3
    /\ elevators[1].targets = <<5>>
    /\ elevators[3].state = "door_opening"
    /\ elevators[3].current_floor = 25
    /\ dwell[3] = 0

\* an update step that takes elevator i from DOOR_CLOSING back to IDLE
ReturnsToIdle(i) ==
    /\ engine = "elevator_system"
    /\ last_call'.op = "update"
    /\ elevators[i].state = "door_closing"
    /\ elevators'[i].state = "idle"

C30_IdleDirectionIffNoTargets ==
    [][\A i \in DOMAIN elevators :
          ReturnsToIdle(i) =>
             (elevators'[i].direction = "idle" <=> elevators'[i].targets = <<>>)]_vars

\* C30 witness: elevator 1 was asked for floor 1 while it stood at floor 2
\* with its doors open; the tick that took it back to IDLE has left it
\* floor 1 to serve and has turned its direction down.
C30_Witness ==
    /\ last_call.op = "update"
    /\ elevators[1].state = "idle"
    /\ elevators[1].current_floor = 2
    /\ elevators[1].targets = <<1>>
    /\ elevators[1].direction = "down"
    /\ dwell[1] = 0

\* the pending targets at or ahead of the elevator's floor in its direction
Ahead(e) ==
    {t \in TargetSet(e.targets) :
        IF e.direction = "up" THEN t >= e.current_floor ELSE t <= e.current_floor}

\* the one of a non-empty set of floors that is nearest to the elevator
Nearest(e, floors) ==
    CHOOSE t \in floors :
        \A u \in floors : IF e.direction = "up" THEN t <= u ELSE t >= u

\* C31: whenever an elevator of elevator_system.ElevatorSystem has a
\* non-idle direction and pending targets of which some lie at or ahead of
\* its floor in the direction of travel, the first element of its target
\* list is the nearest of those.
C31_FirstTargetIsNext ==
    engine = "elevator_system" =>
       \A i \in DOMAIN elevators :
          (/\ elevators[i].direction \in {"up", "down"}
           /\ elevators[i].targets # <<>>
           /\ Ahead(elevators[i]) # {})
          => elevators[i].targets[1] = Nearest(elevators[i], Ahead(elevators[i]))

\* C32: Elevator.add_target returns False and changes nothing when the floor
\* is already in the target list or is outside what the elevator's zone
\* serves (the lobby is always served); otherwise it inserts the floor and
\* returns True. So no target list holds a floor twice, and an elevator in
\* its door cycle keeps the floor it stands at queued, which makes every
\* request for that floor fail until DOOR_CLOSING -> IDLE.
C32_AddTarget ==
    [][/\ last_call'.op = "add_target" =>
             LET e == elevators[last_call'.elevator_id]
                 after == elevators'[last_call'.elevator_id]
                 floor == last_call'.floor
                 served == floor = 1 \/ (e.zone_range[1] <= floor /\ floor <= e.zone_range[2])
             IN  /\ \A j \in DOMAIN elevators :
                       j # e.id => elevators'[j] = elevators[j]
                 /\ IF floor \in TargetSet(e.targets) \/ ~served
                    THEN ret' = "False" /\ after = e
                    ELSE /\ ret' = "True"
                         /\ TargetSet(after.targets) = TargetSet(e.targets) \cup {floor}
                         /\ [after EXCEPT !.targets = e.targets] = e
       /\ \A i \in DOMAIN elevators' :
             /\ Len(elevators'[i].targets) = Cardinality(TargetSet(elevators'[i].targets))
             /\ elevators'[i].state \in DoorStates =>
                   elevators'[i].current_floor \in TargetSet(elevators'[i].targets)
       /\ (/\ last_call'.op \in {"add_target", "add_internal_request"}
           /\ last_call'.elevator_id \in DOMAIN elevators
           /\ elevators[last_call'.elevator_id].state \in DoorStates
           /\ last_call'.floor = elevators[last_call'.elevator_id].current_floor)
          => ret' = "False" /\ elevators' = elevators]_vars

\* C32 witness: elevator 1 stands at floor 2 with its doors open and floor 3
\* queued as well, and add_target has just refused floor 2.
C32_Witness ==
    /\ last_call = [op |-> "add_target", elevator_id |-> 1, floor |-> 2]
    /\ ret = "False"
    /\ elevators[1].state = "door_open"
    /\ elevators[1].current_floor = 2
    /\ elevators[1].targets = <<2, 3>>

\* C33: a tick on an IDLE elevator with a non-empty target list changes its
\* state to MOVING and leaves its floor unchanged, and if its direction was
\* idle sets it to up when the first queued target is above its floor and
\* to down otherwise; a tick on an IDLE elevator with no targets changes
\* nothing.
C33_IdleTick ==
    [][(engine = "elevator_system" /\ last_call'.op = "update") =>
          \A i \in DOMAIN elevators :
             elevators[i].state = "idle" =>
                IF elevators[i].targets = <<>>
                THEN elevators'[i] = elevators[i]
                ELSE /\ elevators'[i].state = "moving"
                     /\ elevators'[i].current_floor = elevators[i].current_floor
                     /\ elevators[i].direction = "idle" =>
                           elevators'[i].direction =
                              IF elevators[i].targets[1] > elevators[i].current_floor
                              THEN "up" ELSE "down"]_vars

\* C33 witness: a tick has started elevator 1, which was idle at floor 1
\* with floors 2 and 3 queued: it is MOVING, direction up, still at floor 1.
C33_Witness ==
    /\ last_call.op = "update"
    /\ elevators[1].state = "moving"
    /\ elevators[1].direction = "up"
    /\ elevators[1].current_floor = 1
    /\ elevators[1].targets = <<2, 3>>
    /\ elevators[2] = NewElevator(2)

\* the edges of the state machine of elevator_system.Elevator
Edges ==
    {<<"idle", "moving">>, <<"moving", "door_opening">>,
     <<"door_opening", "door_open">>, <<"door_open", "door_closing">>,
     <<"door_closing", "idle">>}

\* C34: one tick advances each elevator by at most one transition: over a
\* tick an elevator's state either stays the same or follows exactly one of
\* the edges IDLE -> MOVING, MOVING -> DOOR_OPENING, DOOR_OPENING ->
\* DOOR_OPEN, DOOR_OPEN -> DOOR_CLOSING, DOOR_CLOSING -> IDLE, and its floor
\* changes by at most one.
C34_OneTransitionPerTick ==
    [][(engine = "elevator_system" /\ last_call'.op = "update") =>
          \A i \in DOMAIN elevators :
             /\ \/ elevators'[i].state = elevators[i].state
                \/ <<elevators[i].state, elevators'[i].state>> \in Edges
             /\ elevators'[i].current_floor - elevators[i].current_floor \in {-1, 0, 1}]_vars

\* C34 witness: one tick has made elevator 1 start closing its doors at
\* floor 5 while elevator 3, on its way to floor 25, went one floor up.
C34_Witness ==
    /\ last_call.op = "update"
    /\ elevators[1].state = "door_closing"
    /\ elevators[1].current_floor = 5
    /\ dwell[1] = 0
    /\ elevators[3].state = "moving"
    /\ elevators[3].current_floor = 4
    /\ elevators[3].targets = <<25>>

\* C35: a tick is local to each elevator: the order in which
\* ElevatorSystem.update takes the elevators makes no difference to the
\* resulting system, updating one elevator leaves every other one as it
\* was, and what a tick makes of an elevator depends on nothing but that
\* elevator's own state before the tick (two elevators alike in everything
\* but their id are alike after the tick too).
C35_TickIsLocal ==
    [][(engine = "elevator_system" /\ last_call'.op = "update") =>
          /\ \A order \in Orders(Len(elevators)) :
                UpdateInOrder(elevators, order) = elevators'
          /\ \A i \in DOMAIN elevators :
                /\ elevators'[i] = UpdateOne(elevators, i)[i]
                /\ \A j \in DOMAIN elevators :
                      /\ j # i => UpdateOne(elevators, i)[j] = elevators[j]
                      /\ [elevators[j] EXCEPT !.id = i] = elevators[i] =>
                            [elevators'[j] EXCEPT !.id = i] = elevators'[i]]_vars

\* C35 witness: a tick that took elevator 2 before elevator 1 has started
\* both of them, each with a floor of its own to go to.
C35_Witness ==
    /\ last_call = [op |-> "update", order |-> <<2, 1>>]
    /\ elevators[1].state = "moving"
    /\ elevators[2].state = "moving"
    /\ elevators[1].current_floor = 1
    /\ elevators[2].current_floor = 1
    /\ elevators[1].targets # elevators[2].targets

\* C36: if ticks keep occurring and no emergency stop is issued, every floor
\* accepted into an elevator's target list is eventually served and removed
\* from the list, even while further requests keep being accepted.
C36_EveryTargetServed ==
    \A floor \in NearbyFloors :
       (floor \in TargetSet(elevators[1].targets))
          ~> (floor \notin TargetSet(elevators[1].targets))

\* C37: in every state of elevator_system.ElevatorSystem reached by
\* requests, ticks, emergency stops and resumes, a MOVING elevator has a
\* direction that is not idle and at least one pending target at or ahead
\* of its floor in that direction.
C37_MovingHasTargetAhead ==
    engine = "elevator_system" =>
       \A i \in DOMAIN elevators :
          elevators[i].state = "moving" =>
             /\ elevators[i].direction \in {"up", "down"}
             /\ Ahead(elevators[i]) # {}

\* C37 witness: elevator 3 is on its way up to floor 25 and was asked for
\* the lobby after it had left it: it is MOVING up at floor 10 with one
\* target behind it and one ahead.
C37_Witness ==
    /\ engine = "elevator_system"
    /\ elevators[3].state = "moving"
    /\ elevators[3].direction = "up"
    /\ elevators[3].current_floor = 10
    /\ elevators[3].targets = <<1, 25>>

\* C38: doors and motion are exclusive: an elevator's floor changes only
\* during a tick that starts and ends in MOVING, so never while it is in
\* DOOR_OPENING, DOOR_OPEN, DOOR_CLOSING, IDLE or EMERGENCY and never by a
\* request, a stop or a resume; and an elevator enters DOOR_OPENING only by
\* a tick and only at a floor that is in its target list.
C38_DoorsAndMotionExclusive ==
    [][engine = "elevator_system" =>
          \A i \in DOMAIN elevators :
             /\ elevators'[i].current_floor # elevators[i].current_floor =>
                   /\ last_call'.op = "update"
                   /\ elevators[i].state = "moving"
                   /\ elevators'[i].state = "moving"
             /\ (elevators[i].state # "door_opening" /\ elevators'[i].state = "door_opening") =>
                   /\ last_call'.op = "update"
                   /\ elevators'[i].current_floor = elevators[i].current_floor
                   /\ elevators'[i].current_floor \in TargetSet(elevators'[i].targets)]_vars

\* C38 witness: a tick has made elevator 1 open its doors at floor 5, which
\* it had reached the tick before and which is its only target, while all
\* other elevators rest at the lobby.
C38_Witness ==
    /\ engine = "elevator_system"
    /\ last_call.op = "update"
    /\ elevators[1].state = "door_opening"
    /\ elevators[1].current_floor = 5
    /\ elevators[1].targets = <<5>>
    /\ dwell[1] = 0
    /\ \A i \in 2..6 : elevators[i] = NewElevator(i)

\* C39: an external request for a floor other than the lobby is tried on
\* the one best-scoring eligible elevator only: no other elevator is
\* changed by it, and if the best one already has the floor pending the
\* request returns False and no elevator is given the floor, not even an
\* eligible one that does not have it queued.
C39_OnlyBestElevatorTried ==
    [][(/\ engine = "elevator_system"
        /\ last_call'.op = "add_external_request"
        /\ last_call'.floor \in 2..num_floors
        /\ ~(last_call'.floor = num_floors /\ last_call'.direction = "up")) =>
          LET floor == last_call'.floor
              best == find_elevator_for_floor(elevators, floor, last_call'.direction)
          IN  /\ \A j \in DOMAIN elevators : j # best => elevators'[j] = elevators[j]
              /\ (best # 0 /\ floor \in TargetSet(elevators[best].targets)) =>
                    ret' = "False" /\ elevators' = elevators
              /\ ret' = "True" =>
                    /\ best # 0
                    /\ floor \in TargetSet(elevators'[best].targets)
                    /\ floor \notin TargetSet(elevators[best].targets)]_vars

\* C39 witness: elevator 1 is on its way up to floor 5, elevator 2 rests
\* idle at the lobby and could serve floor 5 too, and an external request
\* for floor 5 has just been refused.
C39_Witness ==
    /\ engine = "elevator_system"
    /\ last_call = [op |-> "add_external_request", floor |-> 5, direction |-> "up"]
    /\ ret = "False"
    /\ elevators[1].state = "moving"
    /\ elevators[1].targets = <<5>>
    /\ elevators[2] = NewElevator(2)

\* C40: in every reachable state of elevator_system.ElevatorSystem an
\* elevator with an empty target list has direction idle; a target list
\* becomes empty only by the tick that takes the elevator from DOOR_CLOSING
\* to IDLE or by an emergency stop, and that same step leaves the direction
\* idle.
C40_NoTargetsMeansIdleDirection ==
    /\ [](engine = "elevator_system" =>
             \A i \in DOMAIN elevators :
                elevators[i].targets = <<>> => elevators[i].direction = "idle")
    /\ [][engine = "elevator_system" =>
             \A i \in DOMAIN elevators :
                (elevators[i].targets # <<>> /\ elevators'[i].targets = <<>>) =>
                   /\ \/ ReturnsToIdle(i)
                      \/ last_call'.op = "emergency_stop"
                   /\ elevators'[i].direction = "idle"]_vars

\* C40 witness: elevator 1 has served floor 5, its only target, and the tick
\* that closed its doors has left it idle at floor 5 with no targets and
\* direction idle.
C40_Witness ==
    /\ engine = "elevator_system"
    /\ last_call.op = "update"
    /\ elevators[1].state = "idle"
    /\ elevators[1].current_floor = 5
    /\ elevators[1].targets = <<>>
    /\ elevators[1].direction = "idle"
    /\ dwell[1] = 0

====
